---- MODULE Spec2Model ----
(***************************************************************************)
(* Model of the weekend-warrior tutorial generator: scripts/sync-data.ts   *)
(* (the sync pipeline), scripts/build-site.ts (the build driver) and the   *)
(* step readers of src/utils.                                              *)
(*                                                                         *)
(* Text is a sequence of one-character strings, so that the regular        *)
(* expressions, splits and joins of the scripts are computed character by  *)
(* character.  A file that may be missing is a record                      *)
(* [present |-> BOOLEAN, text |-> Text].                                   *)
(***************************************************************************)
EXTENDS Integers, Sequences, FiniteSets, TLC

(***************************************************************************)
(* Characters and JavaScript string primitives                             *)
(***************************************************************************)
NL == "\n"
TAB == "\t"
QUOTE == "\""
APOS == "'"
BSLASH == "\\"

Lower == <<"a","b","c","d","e","f","g","h","i","j","k","l","m",
           "n","o","p","q","r","s","t","u","v","w","x","y","z">>
Upper == <<"A","B","C","D","E","F","G","H","I","J","K","L","M",
           "N","O","P","Q","R","S","T","U","V","W","X","Y","Z">>
Digits == <<"0","1","2","3","4","5","6","7","8","9">>

Range(s) == {s[i] : i \in 1..Len(s)}

\* \s of a JavaScript regular expression (the characters the model uses)
IsSpace(c) == c \in {" ", NL, TAB}

\* \w of a JavaScript regular expression
IsWord(c) == c \in Range(Lower) \cup Range(Upper) \cup Range(Digits) \cup {"_"}

\* String.prototype.toUpperCase on one character
ToUpper(c) ==
    IF c \in Range(Lower)
    THEN Upper[CHOOSE i \in 1..Len(Lower) : Lower[i] = c]
    ELSE c

SetMax(S) == CHOOSE m \in S : \A n \in S : n <= m
SetMin(S) == CHOOSE m \in S : \A n \in S : m <= n

\* the text from position a to the end
From(s, a) == SubSeq(s, a, Len(s))

\* String.prototype.trim
Trim(s) ==
    LET keep == {i \in 1..Len(s) : ~IsSpace(s[i])}
    IN  IF keep = {} THEN <<>> ELSE SubSeq(s, SetMin(keep), SetMax(keep))

\* String.prototype.split(sep) for a one-character separator
RECURSIVE Split(_, _)
Split(s, sep) ==
    LET at == {i \in 1..Len(s) : s[i] = sep}
    IN  IF at = {} THEN <<s>>
        ELSE LET i == SetMin(at)
             IN  <<SubSeq(s, 1, i - 1)>> \o Split(From(s, i + 1), sep)

\* Array.prototype.join(sep) for a one-character separator or the empty one
RECURSIVE Join(_, _)
Join(parts, sep) ==
    IF parts = <<>> THEN <<>>
    ELSE IF Len(parts) = 1 THEN parts[1]
    ELSE parts[1] \o sep \o Join(Tail(parts), sep)

\* Array.prototype.filter(Boolean) on an array of strings: drops the empty ones
RECURSIVE FilterBoolean(_)
FilterBoolean(parts) ==
    IF parts = <<>> THEN <<>>
    ELSE (IF parts[1] = <<>> THEN <<>> ELSE <<parts[1]>>) \o FilterBoolean(Tail(parts))

\* Number.prototype.toString for a natural number
RECURSIVE DecString(_)
DecString(n) ==
    IF n < 10 THEN <<Digits[n + 1]>>
    ELSE DecString(n \div 10) \o <<Digits[(n % 10) + 1]>>

\* the end of the line that position g is on: the last position before the
\* next newline (or the end of the text)
LineEnd(s, g) ==
    LET nls == {i \in g..Len(s) : s[i] = NL}
    IN  IF nls = {} THEN Len(s) ELSE SetMin(nls) - 1

\* the end of the maximal run of whitespace that starts at position a
\* (a - 1 when the run is empty)
SpaceRunEnd(s, a) ==
    LET stop == {i \in a..Len(s) : ~IsSpace(s[i])}
    IN  IF stop = {} THEN Len(s) ELSE SetMin(stop) - 1

(***************************************************************************)
(* The regular expressions of sync-data.ts                                 *)
(***************************************************************************)

\* A heading regex /#\s+(.+)/ tried at position p: the positions g at which
\* the group (.+) can start.  \s+ takes one or more whitespace characters,
\* newlines included, and the group starts right after them on a character
\* that is not a newline.
H1GroupStarts(s, p) ==
    IF p > Len(s) \/ s[p] # "#" THEN {}
    ELSE {g \in (p + 2)..(SpaceRunEnd(s, p + 1) + 1) : g <= Len(s) /\ s[g] # NL}

\* stepContent.match(/^#\s+(.+)$/m): the positions where ^ holds under the
\* m flag and the regex matches
TitleMatchStarts(s) ==
    {p \in 1..Len(s) : (p = 1 \/ s[p - 1] = NL) /\ H1GroupStarts(s, p) # {}}

\* match[1] of stepContent.match(/^#\s+(.+)$/m): the leftmost match, \s+
\* greedy, the group running to the end of its line
TitleMatch(s) ==
    LET p == SetMin(TitleMatchStarts(s))
        g == SetMax(H1GroupStarts(s, p))
    IN  [found |-> TitleMatchStarts(s) # {},
         group |-> IF TitleMatchStarts(s) = {} THEN <<>>
                   ELSE SubSeq(s, g, LineEnd(s, g))]

\* readmeBody.replace(/^#\s+.+\n+/, ''): without the m flag ^ is the start
\* of the text; .+ runs to the end of its line and at least one newline must
\* follow; the whole match, trailing newlines included, is removed
StripFirstH1(s) ==
    LET ok == {g \in H1GroupStarts(s, 1) :
                  LineEnd(s, g) < Len(s) /\ s[LineEnd(s, g) + 1] = NL}
        g  == SetMax(ok)
        e  == LineEnd(s, g)
        rest == {i \in (e + 1)..Len(s) : s[i] # NL}
    IN  IF ok = {} THEN s
        ELSE IF rest = {} THEN <<>> ELSE From(s, SetMin(rest))

\* title.replace(/"/g, '\\"')
RECURSIVE EscapeQuotes(_)
EscapeQuotes(s) ==
    IF s = <<>> THEN <<>>
    ELSE (IF s[1] = QUOTE THEN <<BSLASH, QUOTE>> ELSE <<s[1]>>) \o EscapeQuotes(Tail(s))

\* value.replace(/^["']|["']$/g, '')
CleanValue(v) ==
    LET lead  == Len(v) >= 1 /\ v[1] \in {QUOTE, APOS}
        trail == Len(v) >= 2 /\ v[Len(v)] \in {QUOTE, APOS}
    IN  SubSeq(v, IF lead THEN 2 ELSE 1, IF trail THEN Len(v) - 1 ELSE Len(v))

\* line.match(/^(\w+):\s*(.+?)\s*$/): the key is the run of word characters
\* before the colon; the value starts after the whitespace that follows the
\* colon and ends at the last character that is not whitespace (when only
\* whitespace follows the colon, backtracking leaves its last character as
\* the value)
FieldMatch(line) ==
    LET notw  == {i \in 1..Len(line) : ~IsWord(line[i])}
        colon == IF notw = {} THEN 0 ELSE SetMin(notw)
        rest  == From(line, colon + 1)
        keep  == {i \in 1..Len(rest) : ~IsSpace(rest[i])}
        ok    == colon >= 2 /\ line[colon] = ":" /\ Len(rest) >= 1
                    /\ \A i \in 1..Len(rest) : rest[i] # NL
    IN  [found |-> ok,
         key   |-> IF ok THEN SubSeq(line, 1, colon - 1) ELSE <<>>,
         value |-> IF ~ok THEN <<>>
                   ELSE IF keep = {} THEN <<rest[Len(rest)]>>
                   ELSE SubSeq(rest, SetMin(keep), SetMax(keep))]

Dashes == <<"-", "-", "-">>

IsDashesAt(s, i) == i + 2 <= Len(s) /\ SubSeq(s, i, i + 2) = Dashes

\* rawReadme.match(/^\s*---\s*\n([\s\S]*?)\n\s*---\s*\n?([\s\S]*)$/)
\*   open  : the opening --- after the leading whitespace
\*   n1    : the newline that ends the opening delimiter line; \s* is greedy,
\*           so the last newline of the whitespace after --- that still
\*           lets the rest match
\*   m     : the newline before the closing delimiter; group 1 is lazy, so
\*           the first one after n1 that is followed by whitespace and ---
FrontmatterMatch(raw) ==
    LET open   == SpaceRunEnd(raw, 1) + 1
        wsEnd  == SpaceRunEnd(raw, open + 3)
        Closes(m) == raw[m] = NL /\ IsDashesAt(raw, SpaceRunEnd(raw, m + 1) + 1)
        CandM(n1) == {m \in (n1 + 1)..Len(raw) : Closes(m)}
        candN1 == {n \in (open + 3)..wsEnd : raw[n] = NL /\ CandM(n) # {}}
        ok     == IsDashesAt(raw, open) /\ candN1 # {}
        n1     == SetMax(candN1)
        m      == SetMin(CandM(n1))
        close  == SpaceRunEnd(raw, m + 1) + 1
    IN  [found |-> ok,
         frontmatter |-> IF ok THEN SubSeq(raw, n1 + 1, m - 1) ELSE <<>>,
         body  |-> IF ok THEN From(raw, SpaceRunEnd(raw, close + 3) + 1) ELSE <<>>]

\* repoUrl.match(/\/([^\/]+?)(\.git)?$/): only the last slash has a
\* slash-free, non-empty rest; the lazy group gives up a final ".git"
DotGit == <<".", "g", "i", "t">>

UrlMatch(url) ==
    LET slashes == {i \in 1..Len(url) : url[i] = "/"}
        last    == IF slashes = {} THEN 0 ELSE SetMax(slashes)
        rest    == From(url, last + 1)
        ok      == last >= 1 /\ Len(rest) >= 1
        cut     == Len(rest) > 4 /\ From(rest, Len(rest) - 3) = DotGit
    IN  [found |-> ok,
         group |-> IF ~ok THEN <<>>
                   ELSE IF cut THEN SubSeq(rest, 1, Len(rest) - 4) ELSE rest]

\* s.replace(/-/g, ' ')
DashesToSpaces(s) == [i \in 1..Len(s) |-> IF s[i] = "-" THEN " " ELSE s[i]]

\* s.replace(/\b\w/g, c => c.toUpperCase()): a word character at a word
\* boundary is one that no word character precedes
CapitalizeWords(s) ==
    [i \in 1..Len(s) |->
        IF IsWord(s[i]) /\ (i = 1 \/ ~IsWord(s[i - 1])) THEN ToUpper(s[i]) ELSE s[i]]

\* path.basename of a resolved (absolute, normalized) path
Basename(p) ==
    LET parts == Split(p, "/") IN parts[Len(parts)]

(***************************************************************************)
(* The environment: git repositories and remotes                           *)
(***************************************************************************)
\* the longest history of a repository
MaxCommits == 3
\* the number of times the scripts are run
MaxRuns == 2

\* git clone --depth=1000
CloneDepth == 1000
\* the lengths of %H / --no-abbrev-commit and of %h (git's default)
FullHashLen == 40
AbbrevLen == 7

Hex == <<"0","1","2","3","4","5","6","7","8","9","a","b","c","d","e","f">>

NoFile == [present |-> FALSE, text |-> <<>>]
File(t) == [present |-> TRUE, text |-> t]

\* the object name of the k-th commit of the pool
HashOf(k) == [i \in 1..FullHashLen |-> Hex[((k * 5 + i * (k + 2)) % 16) + 1]]

\* %ai of the k-th commit of the pool: author date, ISO-like
DateOf(k) ==
    <<"2","0","2",Digits[k + 1],"-","0",Digits[k + 1],"-","1","5",
      " ","0","9",":","0","0",":","0","0"," ","+","0","0","0","0">>

\* The commits repositories are made of: subject (%s), STEP.md and OUTPUT.md
\* of the commit's tree.
Pool == <<
    [subject |-> <<"I", "n", "i", "t">>, step |-> NoFile, output |-> NoFile],
    [subject |-> <<"A", "d", "d", " ", "x">>, step |-> File(<<"#", " ", "H", "i", NL, "s", "e", "e", NL>>), output |-> File(<<"$", " ", "o", "k", NL>>)],
    [subject |-> <<"F", "i", "x", " ", QUOTE, "a", QUOTE, " ", " ", "b">>, step |-> File(<<"#", NL, "f", "o", "o", NL>>), output |-> File(<<>>)],
    [subject |-> <<"w", "i", "p">>, step |-> File(<<"t", "e", "x", "t", " ", "#", "1", NL>>), output |-> NoFile],
    [subject |-> <<" ", "t">>, step |-> File(<<"a", NL, "#", " ", " ", "B", " ", "c", " ", NL, "#", " ", "D", NL>>), output |-> File(<<"x">>)],
    [subject |-> <<"z">>, step |-> File(<<"#", " ", NL, "f", "o", "o", NL, "#", " ", "R", NL>>), output |-> NoFile],
    [subject |-> <<"o", "p">>, step |-> NoFile, output |-> File(<<"y", NL>>)] >>

PoolCommit(k) ==
    [hash |-> HashOf(k), date |-> DateOf(k), subject |-> Pool[k].subject,
     step |-> Pool[k].step, output |-> Pool[k].output]

\* the history of n commits that starts at pool commit s, oldest first
History(s, n) == [i \in 1..n |-> PoolCommit(((s + i - 2) % Len(Pool)) + 1)]

\* README.md of the working tree
Readmes == <<
    File(<<"#", " ", "T", NL, NL, "B", "o", "d", "y", NL>>),
    File(<<"-", "-", "-", NL, "t", "i", "t", "l", "e", ":", " ", QUOTE, "F", "o", "o", QUOTE, NL, "d", "o", "c", "N", "u", "m", "b", "e", "r", ":", " ", "X", "-", "1", NL, "-", "-", "-", NL, "#", " ", "F", "o", "o", NL, "B", "o", "d", "y">>),
    File(<<"-", "-", "-", NL, "t", "i", "t", "l", "e", ":", " ", "Z", NL, "B", "o", "d", "y", NL, "-", "-", "-", "-", NL, "x", NL>>),
    File(<<"-", "-", "-", NL, "d", "e", "s", "c", "r", "i", "p", "t", "i", "o", "n", ":", " ", APOS, "d", " ", "e", APOS, NL, "-", "-", "-", NL, "#", " ", "A", NL>>),
    File(<<"-", "-", "-", NL, "t", "i", "t", "l", "e", ":", " ", "Z", NL, "B", "o", "d", "y", NL>>),
    NoFile,
    File(<<NL, "-", "-", "-", NL, "t", "i", "t", "l", "e", ":", " ", QUOTE, QUOTE, NL, "d", "e", "s", "c", "r", "i", "p", "t", "i", "o", "n", ":", " ", QUOTE, "D", QUOTE, NL, "d", "o", "c", "N", "u", "m", "b", "e", "r", ":", " ", APOS, "N", "7", APOS, NL, "-", "-", "-", NL, NL, "#", " ", "Q", NL, NL, "T", "e", "x", "t", NL>>) >>

\* git remote get-url origin (absent: the command fails)
Origins == <<
    NoFile,
    File(<<"h", "t", "t", "p", "s", ":", "/", "/", "h", "/", "u", "/", "m", "y", "-", "a", "p", "p", ".", "g", "i", "t", NL>>),
    File(<<"g", "i", "t", "@", "h", ":", "u", "/", "a", "_", "b", NL>>) >>

DirNames == << <<"m", "y", "-", "a", "p", "p">>, <<"a", "_", "b">>, <<"c", " ", "d">> >>

\* A directory of the file system as the scripts see it:
\*   exists  fs.existsSync(dir)
\*   dotGit  fs.existsSync(dir/.git); git commands run in it find a repository
\*   commits the commits reachable from the branch tip, oldest first
Repo(s, n) ==
    [exists |-> TRUE, dotGit |-> TRUE, commits |-> History(s, n),
     readme |-> Readmes[(((s + n) \div 2) % Len(Readmes)) + 1],
     origin |-> Origins[((s + 2 * n) % Len(Origins)) + 1]]

\* a directory that is no repository, with a README.md in it
PlainDir ==
    [exists |-> TRUE, dotGit |-> FALSE, commits |-> <<>>,
     readme |-> Readmes[1], origin |-> NoFile]

Missing ==
    [exists |-> FALSE, dotGit |-> FALSE, commits |-> <<>>,
     readme |-> NoFile, origin |-> NoFile]

\* the repositories on disk: two of each history length
RepoKeys == {<<n + 1, n>> : n \in 0..MaxCommits} \cup {<<n + 3, n>> : n \in 0..MaxCommits}

\* the path of the working copy of Repo(s, n)
LocalPath(s, n) ==
    <<"/", "w", "/">> \o DecString(s) \o DecString(n) \o <<"/">>
        \o DirNames[((s + n) % Len(DirNames)) + 1]

PlainPath == <<"/", "w", "/", "d", "o", "c", "s">>
MissingPath == <<"/", "w", "/", "n", "o", "n", "e">>

LocalPaths == {LocalPath(k[1], k[2]) : k \in RepoKeys} \cup {PlainPath, MissingPath}

LocalDir(path) ==
    IF path = PlainPath THEN PlainDir
    ELSE IF path = MissingPath THEN Missing
    ELSE LET k == CHOOSE k \in RepoKeys : LocalPath(k[1], k[2]) = path
         IN  Repo(k[1], k[2])

(***************************************************************************)
(* State                                                                   *)
(***************************************************************************)
VARIABLES
    stepsDir,       \* STEPS_DIR: [exists, files: file name -> content]
    docsReadme,     \* DOCS_DIR/readme.md
    docsDir,        \* fs.existsSync(DOCS_DIR)
    dataFile,       \* DATA_FILE (project.json): [present, data]
    tmpDirs,        \* the temporary directories that exist: tmpDir -> tmpDir/repo
    day,            \* the date of new Date(), an index into Days
    spc,            \* position of the sync-data.ts process
    SOURCE_REPO,    \* sync-data.ts: the resolved source path
    projectConfig,  \* sync-data.ts: the parsed frontmatter
    commits,        \* sync-data.ts: the parsed git log
    steps,          \* sync-data.ts: the step records built so far
    failure,        \* sync-data.ts: the call whose exception ended the process
    bpc,            \* position of the build-site.ts process
    gitPath,        \* build-site.ts: the git-path argument
    sourceRepo,     \* build-site.ts: the repository handed to sync-data.ts
    tmpDir,         \* build-site.ts: the temporary directory of this run
    exitCode,       \* build-site.ts: the exit status (when bpc = "exit")
    runs,           \* the number of script runs started so far
    stages,         \* the stages build-site.ts has started, in order
    startOut,       \* the persisted output when the current sync run started
    runDay,         \* the day the current sync run started
    lastRun,        \* the previous sync run, when it succeeded: source, day, output
    gs,             \* a call of getSteps of src/utils/steps.ts: input and result
    ms,             \* a call of the manifest-backed getSteps: input and result
    site,           \* the step page being served: repository (REPO_PATH) and step
    rf,             \* a call of getFileContent of src/utils/git.ts: input and result
    props,          \* Workspace: the props the page passes
    selectedFile,   \* Workspace: useState selectedFile
    mode,           \* Workspace: useState mode
    highlightedCode,\* Workspace: useState highlightedCode
    diffHtml,       \* Workspace: useState diffHtml
    highlighter,    \* Workspace: useState highlighter (TRUE once created)
    showAllFiles,   \* Workspace: useState showAllFiles
    effectDeps      \* Workspace: the dependencies each effect last ran with

vars == <<stepsDir, docsReadme, docsDir, dataFile, tmpDirs, day, spc, SOURCE_REPO,
          projectConfig, commits, steps, bpc, gitPath, sourceRepo, tmpDir,
          exitCode, stages, runs, startOut, runDay, lastRun, gs, failure,
          ms, site, rf, props, selectedFile, mode, highlightedCode, diffHtml,
          highlighter, showAllFiles, effectDeps>>

syncVars == <<spc, SOURCE_REPO, projectConfig, commits, steps, failure>>
buildVars == <<bpc, gitPath, sourceRepo, tmpDir, exitCode, stages, runs>>
outVars == <<stepsDir, docsReadme, docsDir, dataFile>>
histVars == <<startOut, runDay, lastRun>>
viewVars == <<site, rf, props, selectedFile, mode, highlightedCode, diffHtml,
              highlighter, showAllFiles, effectDeps>>
pageVars == <<gs, ms, viewVars>>

Days == << <<"2", "0", "2", "6", "-", "0", "3", "-", "0", "1", "T", "0", "8", ":", "0", "0", ":", "0", "0", ".", "0", "0", "0", "Z">>, <<"2", "0", "2", "6", "-", "0", "3", "-", "0", "2", "T", "0", "8", ":", "0", "0", ":", "0", "0", ".", "0", "0", "0", "Z">> >>

\* new Date().toISOString()
NowISO == Days[day]

Cwd == <<"/", "w">>

\* path.resolve(p) for the paths used here (no "." or ".." segments)
Resolve(p) == IF p # <<>> /\ p[1] = "/" THEN p ELSE Cwd \o <<"/">> \o p

\* path.resolve('../weekend-coding-agent') from Cwd
DefaultSource == <<"/", "w", "e", "e", "k", "e", "n", "d", "-", "c", "o", "d", "i", "n", "g", "-", "a", "g", "e", "n", "t">>

\* path.join(dir, name)
PathJoin(dir, name) == dir \o <<"/">> \o name

RepoSubdir == <<"r", "e", "p", "o">>

\* the directory found at a path
DirAt(path) ==
    IF path \in LocalPaths THEN LocalDir(path)
    ELSE IF \E t \in DOMAIN tmpDirs : path = PathJoin(t, RepoSubdir)
    THEN tmpDirs[CHOOSE t \in DOMAIN tmpDirs : path = PathJoin(t, RepoSubdir)]
    ELSE Missing

\* the persisted output of the sync pipeline
Output == [steps |-> stepsDir, readme |-> docsReadme, docs |-> docsDir, data |-> dataFile]

NoFiles == [name \in {} |-> <<>>]

NoConfig == [title |-> NoFile, description |-> NoFile, docNumber |-> NoFile]

NoManifest ==
    [title |-> <<>>, description |-> <<>>, repoName |-> <<>>, repoPath |-> <<>>,
     repoUrl |-> <<>>, startDate |-> <<>>, lastDate |-> <<>>, docNumber |-> <<>>,
     steps |-> <<>>]

NoOutput ==
    [steps |-> [exists |-> FALSE, files |-> NoFiles], readme |-> NoFile,
     docs |-> FALSE, data |-> [present |-> FALSE, data |-> NoManifest]]

\* the call of the manifest-backed getSteps made since the last script
\* start: the manifest and the content directory it read, and its result
NoManifestCall == [pc |-> "idle", projectData |-> NoManifest,
                   dir |-> [exists |-> FALSE, files |-> NoFiles], steps |-> <<>>]

NoRun == [ok |-> FALSE, source |-> <<>>, day |-> 0, out |-> NoOutput]

(***************************************************************************)
(* git, as sync-data.ts calls it                                           *)
(***************************************************************************)

\* a git command run with cwd dir finds a repository with at least one commit
GitWorks(dir) == dir.exists /\ dir.dotGit /\ dir.commits # <<>>

\* %h
Abbrev(hash) == SubSeq(hash, 1, AbbrevLen)

\* one line of git log --format="%h %s"
LogLine(c) == Abbrev(c.hash) \o <<" ">> \o c.subject \o <<NL>>

\* stdout of git log --oneline --reverse --format="%h %s"
RECURSIVE LogOutput(_)
LogOutput(cs) == IF cs = <<>> THEN <<>> ELSE LogLine(cs[1]) \o LogOutput(Tail(cs))

\* line => { const [hash, ...msgParts] = line.split(' ');
\*           return { hash, message: msgParts.join(' ') } }
ParseLogLine(line) ==
    LET parts == Split(line, " ")
    IN  [hash |-> parts[1], message |-> Join(Tail(parts), <<" ">>)]

\* logOutput.split('\n').filter(Boolean).map(...)
ParseLog(logOutput) ==
    LET lines == FilterBoolean(Split(logOutput, NL))
    IN  [i \in 1..Len(lines) |-> ParseLogLine(lines[i])]

\* git show <hash>:<file>: the blob of the commit the (abbreviated) hash
\* names; absent when the tree has no such file (the command fails)
GitShow(dir, hash, file) ==
    LET hit == {i \in 1..Len(dir.commits) :
                    SubSeq(dir.commits[i].hash, 1, Len(hash)) = hash}
    IN  IF ~GitWorks(dir) \/ hit = {} THEN NoFile
        ELSE IF file = "STEP.md" THEN dir.commits[SetMin(hit)].step
        ELSE dir.commits[SetMin(hit)].output

(***************************************************************************)
(* sync-data.ts                                                            *)
(***************************************************************************)

\* for (const line of frontmatter.split('\n')) { ... projectConfig.key = cleanValue }
RECURSIVE ParseFields(_, _)
ParseFields(lines, config) ==
    IF lines = <<>> THEN config
    ELSE LET m == FieldMatch(lines[1])
             v == File(CleanValue(m.value))
             next == IF ~m.found THEN config
                     ELSE IF m.key = <<"t", "i", "t", "l", "e">> THEN [config EXCEPT !.title = v]
                     ELSE IF m.key = <<"d", "e", "s", "c", "r", "i", "p", "t", "i", "o", "n">> THEN [config EXCEPT !.description = v]
                     ELSE IF m.key = <<"d", "o", "c", "N", "u", "m", "b", "e", "r">> THEN [config EXCEPT !.docNumber = v]
                     ELSE config
         IN  ParseFields(Tail(lines), next)

\* the README block: the parsed projectConfig and the body written to
\* DOCS_DIR/readme.md
ReadReadme(rawReadme) ==
    LET fm   == FrontmatterMatch(rawReadme)
        body == IF fm.found THEN Trim(fm.body) ELSE rawReadme
    IN  [config |-> IF fm.found THEN ParseFields(Split(fm.frontmatter, NL), NoConfig)
                    ELSE NoConfig,
         body   |-> StripFirstH1(body)]

FallbackNote == <<"*", "N", "o", " ", "S", "T", "E", "P", ".", "m", "d", " ", "f", "o", "u", "n", "d", " ", "f", "o", "r", " ", "t", "h", "i", "s", " ", "c", "o", "m", "m", "i", "t", ".", "*">>

\* StepNarrative with a catch block that leaves stepContent empty
StepNarrative_NoFallback(dir, commit) ==
    LET blob == GitShow(dir, commit.hash, "STEP.md")
        m    == TitleMatch(blob.text)
    IN  [stepContent |-> blob.text,
         title |-> IF blob.present /\ m.found THEN m.group ELSE commit.message]

\* the first try block of the commits.map callback: stepContent and title
StepNarrative(dir, commit) ==
    LET blob == GitShow(dir, commit.hash, "STEP.md")
        m    == TitleMatch(blob.text)
    IN  IF blob.present
        THEN [stepContent |-> blob.text,
              title |-> IF m.found THEN m.group ELSE commit.message]
        ELSE [stepContent |-> <<"#", " ">> \o commit.message \o <<NL, NL>> \o FallbackNote,
              title |-> commit.message]

\* the second try block: outputContent ('' when git show fails)
StepOutput(dir, commit) == GitShow(dir, commit.hash, "OUTPUT.md").text

\* JavaScript truthiness of a string
Truthy(str) == str # <<>>

\* StepFileContent with the heading line cut from the narrative
StepFileContent_CutsHeading(title, hash, id, stepContent) ==
    Dashes \o <<NL>>
    \o <<"t", "i", "t", "l", "e", ":", " ", QUOTE>> \o EscapeQuotes(title) \o <<QUOTE, NL>>
    \o <<"c", "o", "m", "m", "i", "t", ":", " ", QUOTE>> \o hash \o <<QUOTE, NL>>
    \o <<"s", "l", "u", "g", ":", " ", QUOTE>> \o id \o <<QUOTE, NL>>
    \o Dashes \o <<NL, NL>>
    \o StripFirstH1(stepContent) \o <<NL>>

\* the template literal written to <id>.md
StepFileContent(title, hash, id, stepContent) ==
    Dashes \o <<NL>>
    \o <<"t", "i", "t", "l", "e", ":", " ", QUOTE>> \o EscapeQuotes(title) \o <<QUOTE, NL>>
    \o <<"c", "o", "m", "m", "i", "t", ":", " ", QUOTE>> \o hash \o <<QUOTE, NL>>
    \o <<"s", "l", "u", "g", ":", " ", QUOTE>> \o id \o <<QUOTE, NL>>
    \o Dashes \o <<NL, NL>>
    \o stepContent \o <<NL>>

MdName(id) == id \o <<".", "m", "d">>
OutputName(id) == id \o <<".", "o", "u", "t", "p", "u", "t", ".", "t", "x", "t">>

\* StepRecord with ids counted from one
StepRecord_OneBased(dir, commit, index) ==
    LET id == DecString(index + 1)
    IN  [id |-> id,
         title |-> StepNarrative(dir, commit).title,
         commit |-> commit.hash,
         slug |-> id,
         commitMessage |-> commit.message,
         hasOutput |-> Truthy(StepOutput(dir, commit))]

\* the record the commits.map callback returns for commits[index]
StepRecord(dir, commit, index) ==
    LET id == DecString(index)
    IN  [id |-> id,
         title |-> StepNarrative(dir, commit).title,
         commit |-> commit.hash,
         slug |-> id,
         commitMessage |-> commit.message,
         hasOutput |-> Truthy(StepOutput(dir, commit))]

\* the files the commits.map callback writes for commits[index]
StepWrites(dir, commit, index) ==
    LET id  == DecString(index)
        n   == StepNarrative(dir, commit)
        out == StepOutput(dir, commit)
        md  == MdName(id) :> StepFileContent(n.title, commit.hash, id, n.stepContent)
    IN  IF Truthy(out) THEN md @@ (OutputName(id) :> out) ELSE md

\* step 4: repoUrl and repoName
RepoInfo(dir, source) ==
    LET url == Trim(dir.origin.text)
        m   == UrlMatch(url)
    IN  IF dir.exists /\ dir.dotGit /\ dir.origin.present
        THEN [repoUrl |-> url,
              repoName |-> IF m.found THEN m.group ELSE Basename(source)]
        ELSE [repoUrl |-> <<>>, repoName |-> Basename(source)]

\* x.trim().split(' ')[0] of a %ai date
DatePart(ai) == Split(Trim(ai), " ")[1]

\* CommitDates keeping the initial new Date() values
CommitDates_Today(dir, now) ==
    [startDate |-> Split(now, "T")[1], lastDate |-> Split(now, "T")[1]]

\* step 5: startDate and lastDate.  The first command is a bash pipeline
\* ending in head, which does not fail when git does; the second throws
\* when git fails, after startDate was assigned.
CommitDates(dir, now) ==
    LET today == Split(now, "T")[1]
        cs    == dir.commits
    IN  IF ~dir.exists THEN [startDate |-> today, lastDate |-> today]
        ELSE IF ~GitWorks(dir) THEN [startDate |-> <<>>, lastDate |-> today]
        ELSE [startDate |-> DatePart(cs[1].date \o <<NL>>),
              lastDate  |-> DatePart(cs[Len(cs)].date \o <<NL>>)]

\* words.map(word => word.charAt(0).toUpperCase()).join('')
RECURSIVE Initials(_)
Initials(words) ==
    IF words = <<>> THEN <<>>
    ELSE (IF words[1] = <<>> THEN <<>> ELSE <<ToUpper(words[1][1])>>)
         \o Initials(Tail(words))

\* step 6
defaultDocNumber(repoName, startDate) ==
    Initials(Split(repoName, "-")) \o <<"-">> \o Split(startDate, "-")[1]

\* defaultTitle replacing '_' as well as '-'
defaultTitle_UnderscoresToo(repoName) ==
    CapitalizeWords([i \in 1..Len(repoName) |->
                        IF repoName[i] \in {"-", "_"} THEN " " ELSE repoName[i]])

\* step 7
defaultTitle(repoName) == CapitalizeWords(DashesToSpaces(repoName))

\* a || b for an optional string a
OrElse(opt, dflt) == IF opt.present /\ Truthy(opt.text) THEN opt.text ELSE dflt

\* ProjectData taking the frontmatter only when it gives all three keys
ProjectData_AllOrNothing(dir, source, config, stepList, now) ==
    LET info  == RepoInfo(dir, source)
        dates == CommitDates(dir, now)
        all   == \A key \in DOMAIN config : config[key].present /\ Truthy(config[key].text)
    IN  [title |-> IF all THEN config.title.text ELSE defaultTitle(info.repoName),
         description |-> IF all THEN config.description.text ELSE <<>>,
         repoName |-> info.repoName,
         repoPath |-> source,
         repoUrl |-> info.repoUrl,
         startDate |-> dates.startDate,
         lastDate |-> dates.lastDate,
         docNumber |-> IF all THEN config.docNumber.text
                       ELSE defaultDocNumber(info.repoName, dates.startDate),
         steps |-> stepList]

\* step 8: projectData
ProjectData(dir, source, config, stepList, now) ==
    LET info  == RepoInfo(dir, source)
        dates == CommitDates(dir, now)
    IN  [title |-> OrElse(config.title, defaultTitle(info.repoName)),
         description |-> OrElse(config.description, <<>>),
         repoName |-> info.repoName,
         repoPath |-> source,
         repoUrl |-> info.repoUrl,
         startDate |-> dates.startDate,
         lastDate |-> dates.lastDate,
         docNumber |-> OrElse(config.docNumber,
                              defaultDocNumber(info.repoName, dates.startDate)),
         steps |-> stepList]

(***************************************************************************)
(* sync-data.ts as a process                                               *)
(***************************************************************************)
SyncRunning == spc \in {"reset", "readme", "gitlog", "steps"}
BuildRunning == bpc \in {"acquire", "sync", "syncing", "build"}

\* what the launch of sync-data.ts sets up (lines 10-18; projectConfig is
\* declared at line 37)
Launch(source) ==
    /\ spc' = "reset"
    /\ SOURCE_REPO' = source
    /\ projectConfig' = NoConfig
    /\ commits' = <<>>
    /\ steps' = <<>>
    /\ failure' = "none"
    /\ startOut' = Output
    /\ runDay' = day
    /\ lastRun' = IF spc = "done"
                  THEN [ok |-> TRUE, source |-> SOURCE_REPO, day |-> runDay,
                        out |-> Output]
                  ELSE NoRun

\* npx tsx scripts/sync-data.ts <path>, run by hand
StartSync(arg) ==
    /\ ~SyncRunning /\ ~BuildRunning
    /\ runs < MaxRuns /\ runs' = runs + 1
    /\ Launch(Resolve(arg))
    /\ bpc' = "idle" /\ gitPath' = <<>> /\ sourceRepo' = <<>> /\ tmpDir' = <<>>
    /\ exitCode' = 0 /\ stages' = <<>>
    /\ UNCHANGED <<outVars, tmpDirs, day, gs, viewVars>>
    /\ ms' = NoManifestCall

\* npx tsx scripts/sync-data.ts, without an argument
StartSyncDefault ==
    /\ ~SyncRunning /\ ~BuildRunning
    /\ runs < MaxRuns /\ runs' = runs + 1
    /\ Launch(DefaultSource)
    /\ bpc' = "idle" /\ gitPath' = <<>> /\ sourceRepo' = <<>> /\ tmpDir' = <<>>
    /\ exitCode' = 0 /\ stages' = <<>>
    /\ UNCHANGED <<outVars, tmpDirs, day, gs, viewVars>>
    /\ ms' = NoManifestCall

\* SyncReset without the fs.rmSync of STEPS_DIR
SyncReset_KeepsFiles ==
    /\ spc = "reset"
    /\ stepsDir' = [stepsDir EXCEPT !.exists = TRUE]
    /\ docsDir' = TRUE
    /\ spc' = "readme"
    /\ UNCHANGED <<docsReadme, dataFile, tmpDirs, day, SOURCE_REPO, projectConfig,
                   commits, steps, failure, buildVars, histVars, pageVars>>

\* "Ensure directories exist"
SyncReset ==
    /\ spc = "reset"
    /\ stepsDir' = [exists |-> TRUE, files |-> NoFiles]
    /\ docsDir' = TRUE
    /\ spc' = "readme"
    /\ UNCHANGED <<docsReadme, dataFile, tmpDirs, day, SOURCE_REPO, projectConfig,
                   commits, steps, failure, buildVars, histVars, pageVars>>

\* SyncReadme reading README.md without the fs.existsSync test
SyncReadme_Unguarded ==
    /\ spc = "readme"
    /\ LET dir == DirAt(SOURCE_REPO)
           r   == ReadReadme(dir.readme.text)
       IN  IF dir.exists /\ dir.readme.present
           THEN /\ projectConfig' = r.config
                /\ docsReadme' = File(r.body)
                /\ spc' = "gitlog" /\ failure' = failure
           ELSE /\ UNCHANGED <<projectConfig, docsReadme>>
                /\ spc' = "failed" /\ failure' = "readFileSync"
    /\ UNCHANGED <<stepsDir, docsDir, dataFile, tmpDirs, day, SOURCE_REPO,
                   commits, steps, buildVars, histVars, pageVars>>

\* 1. Read README.md, parse frontmatter, and save content without frontmatter
SyncReadme ==
    /\ spc = "readme"
    /\ LET dir == DirAt(SOURCE_REPO)
           r   == ReadReadme(dir.readme.text)
       IN  IF dir.exists /\ dir.readme.present
           THEN /\ projectConfig' = r.config
                /\ docsReadme' = File(r.body)
           ELSE UNCHANGED <<projectConfig, docsReadme>>
    /\ spc' = "gitlog"
    /\ UNCHANGED <<stepsDir, docsDir, dataFile, tmpDirs, day, SOURCE_REPO,
                   commits, steps, failure, buildVars, histVars, pageVars>>

\* 2. Get git log: execSync throws when git fails, which ends the process
SyncGitLog ==
    /\ spc = "gitlog"
    /\ LET dir == DirAt(SOURCE_REPO)
       IN  IF GitWorks(dir)
           THEN /\ commits' = ParseLog(LogOutput(dir.commits))
                /\ spc' = "steps" /\ failure' = failure
           ELSE /\ commits' = commits
                /\ spc' = "failed" /\ failure' = "execSync"
    /\ UNCHANGED <<outVars, tmpDirs, day, SOURCE_REPO, projectConfig, steps,
                   buildVars, histVars, pageVars>>

\* 3. Map commits to steps: one call of the commits.map callback
SyncStep ==
    /\ spc = "steps"
    /\ Len(steps) < Len(commits)
    /\ LET index  == Len(steps)
           commit == commits[index + 1]
           dir    == DirAt(SOURCE_REPO)
       IN  /\ stepsDir' = [stepsDir EXCEPT
                              !.files = StepWrites(dir, commit, index) @@ @]
           /\ steps' = Append(steps, StepRecord(dir, commit, index))
    /\ UNCHANGED <<docsReadme, docsDir, dataFile, tmpDirs, day, spc, SOURCE_REPO,
                   projectConfig, commits, failure, buildVars, histVars, pageVars>>

\* fs.writeFileSync(destStepFile, ...) throws (disk full, permissions)
SyncStepWriteFails ==
    /\ spc = "steps"
    /\ Len(steps) < Len(commits)
    /\ spc' = "failed" /\ failure' = "writeFileSync"
    /\ UNCHANGED <<outVars, tmpDirs, day, SOURCE_REPO, projectConfig, commits,
                   steps, buildVars, histVars, pageVars>>

\* 4.-8. repo info, dates, defaults, write project.json
SyncManifest ==
    /\ spc = "steps"
    /\ Len(steps) = Len(commits)
    /\ \E writes \in BOOLEAN :
          IF writes
          THEN /\ dataFile' = [present |-> TRUE,
                               data |-> ProjectData(DirAt(SOURCE_REPO), SOURCE_REPO,
                                                    projectConfig, steps, NowISO)]
               /\ spc' = "done" /\ failure' = failure
          ELSE /\ dataFile' = dataFile
               /\ spc' = "failed" /\ failure' = "writeFileSync"
    /\ UNCHANGED <<stepsDir, docsReadme, docsDir, tmpDirs, day, SOURCE_REPO,
                   projectConfig, commits, steps, buildVars, histVars, pageVars>>

(***************************************************************************)
(* build-site.ts                                                           *)
(***************************************************************************)
StartsWith(str, prefix) ==
    Len(str) >= Len(prefix) /\ SubSeq(str, 1, Len(prefix)) = prefix

\* const isRemote = ...
IsRemote(path) ==
    \/ StartsWith(path, <<"h", "t", "t", "p", ":", "/", "/">>)
    \/ StartsWith(path, <<"h", "t", "t", "p", "s", ":", "/", "/">>)
    \/ StartsWith(path, <<"g", "i", "t", "@">>)
    \/ StartsWith(path, <<"s", "s", "h", ":", "/", "/">>)

Url1 == <<"h", "t", "t", "p", "s", ":", "/", "/", "h", "/", "u", "/", "m", "y", "-", "a", "p", "p", ".", "g", "i", "t">>
Url2 == <<"g", "i", "t", "@", "h", ":", "s", "o", "l", "o", ".", "g", "i", "t">>
Url3 == <<"s", "s", "h", ":", "/", "/", "h", "/", "e">>
Url4 == <<"h", "t", "t", "p", ":", "/", "/", "h", "/", "b", "a", "d">>

\* what the remote URLs lead to: a repository (clone succeeds, also of an
\* empty one) or nothing (clone fails)
Remote(url) ==
    IF url = Url1 THEN [reachable |-> TRUE, commits |-> History(2, 2), readme |-> Readmes[7]]
    ELSE IF url = Url2 THEN [reachable |-> TRUE, commits |-> History(6, MaxCommits), readme |-> Readmes[6]]
    ELSE IF url = Url3 THEN [reachable |-> TRUE, commits |-> <<>>, readme |-> Readmes[3]]
    ELSE [reachable |-> FALSE, commits |-> <<>>, readme |-> NoFile]

RemoteArgs == {Url1, Url2, Url3, Url4}

\* the history a clone of the given depth holds: the newest commits
Shallow(cs, depth) ==
    IF Len(cs) <= depth THEN cs ELSE SubSeq(cs, Len(cs) - depth + 1, Len(cs))

\* the directory git clone --depth=1000 <url> <dir> creates
CloneOf(url) ==
    [exists |-> TRUE, dotGit |-> TRUE,
     commits |-> Shallow(Remote(url).commits, CloneDepth),
     readme |-> Remote(url).readme,
     origin |-> File(url \o <<NL>>)]

\* the git-path arguments for the local directories: relative to Cwd for the
\* repositories, absolute for the others
LocalArgs == {From(LocalPath(k[1], k[2]), Len(Cwd) + 2) : k \in RepoKeys}
                \cup {PlainPath, MissingPath}

\* the git-path arguments build-site.ts is run with: every remote URL, the two
\* local paths that are no repository, and the local repositories of at most
\* one commit (the longer histories are built from the remotes)
BuildArgs ==
    RemoteArgs \cup {PlainPath, MissingPath}
               \cup {From(LocalPath(n + 1, n), Len(Cwd) + 2) : n \in 0..1}

TmpPrefix == <<"/", "t", "m", "p", "/", "w", "e", "e", "k", "e", "n", "d", "-", "w", "a", "r", "r", "i", "o", "r", "-">>

\* fs.mkdtempSync(path.join(os.tmpdir(), 'weekend-warrior-')): a new name
MkdTemp == TmpPrefix \o DecString(Cardinality(DOMAIN tmpDirs) + 1)

StageOrder == <<"acquire", "sync", "build">>

Exit(code) == bpc' = "exit" /\ exitCode' = code

\* npx tsx scripts/build-site.ts <git-path>
StartBuild(arg) ==
    /\ ~SyncRunning /\ ~BuildRunning
    /\ runs < MaxRuns /\ runs' = runs + 1
    /\ bpc' = "acquire"
    /\ gitPath' = arg
    /\ sourceRepo' = <<>> /\ tmpDir' = <<>> /\ exitCode' = 0 /\ stages' = <<>>
    /\ UNCHANGED <<outVars, tmpDirs, day, syncVars, histVars, gs, viewVars>>
    /\ ms' = NoManifestCall

\* npx tsx scripts/build-site.ts, without arguments: usage() exits with 1
BuildUsage ==
    /\ ~SyncRunning /\ ~BuildRunning
    /\ runs < MaxRuns /\ runs' = runs + 1
    /\ gitPath' = <<>>
    /\ sourceRepo' = <<>> /\ tmpDir' = <<>> /\ stages' = <<>>
    /\ Exit(1)
    /\ UNCHANGED <<outVars, tmpDirs, day, syncVars, histVars, pageVars>>

\* "Determine if it's a remote URL or local path": clone, or validate
BuildAcquire ==
    /\ bpc = "acquire"
    /\ IF IsRemote(gitPath)
       THEN /\ tmpDir' = MkdTemp
            /\ sourceRepo' = PathJoin(MkdTemp, RepoSubdir)
            /\ IF Remote(gitPath).reachable
               THEN /\ tmpDirs' = (MkdTemp :> CloneOf(gitPath)) @@ tmpDirs
                    /\ stages' = <<[name |-> "acquire", ok |-> TRUE]>>
                    /\ bpc' = "sync" /\ exitCode' = exitCode
               ELSE /\ tmpDirs' = (MkdTemp :> Missing) @@ tmpDirs
                    /\ stages' = <<[name |-> "acquire", ok |-> FALSE]>>
                    /\ Exit(1)
       ELSE /\ sourceRepo' = Resolve(gitPath)
            /\ UNCHANGED <<tmpDir, tmpDirs>>
            /\ LET dir == DirAt(Resolve(gitPath))
               IN  IF dir.exists /\ dir.dotGit
                   THEN /\ stages' = <<[name |-> "acquire", ok |-> TRUE]>>
                        /\ bpc' = "sync" /\ exitCode' = exitCode
                   ELSE /\ stages' = <<[name |-> "acquire", ok |-> FALSE]>>
                        /\ Exit(1)
    /\ UNCHANGED <<outVars, day, gitPath, runs, syncVars, histVars, pageVars>>

\* "Run sync-data.ts with the source repo": execSync starts the script
BuildSync ==
    /\ bpc = "sync"
    /\ Launch(Resolve(sourceRepo))
    /\ bpc' = "syncing"
    /\ stages' = Append(stages, [name |-> "sync", ok |-> FALSE])
    /\ UNCHANGED <<outVars, tmpDirs, day, gitPath, sourceRepo, tmpDir, exitCode,
                   runs, pageVars>>

\* BuildSyncExit with a catch block that does not exit
BuildSyncExit_IgnoresStatus ==
    /\ bpc = "syncing"
    /\ ~SyncRunning
    /\ stages' = [stages EXCEPT ![Len(stages)].ok = (spc = "done")]
    /\ bpc' = "build" /\ exitCode' = exitCode
    /\ UNCHANGED <<outVars, tmpDirs, day, gitPath, sourceRepo, tmpDir, runs,
                   syncVars, histVars, pageVars>>

\* execSync returns, or throws when the script exited with a non-zero status
BuildSyncExit ==
    /\ bpc = "syncing"
    /\ ~SyncRunning
    /\ IF spc = "done"
       THEN /\ stages' = [stages EXCEPT ![Len(stages)].ok = TRUE]
            /\ bpc' = "build" /\ exitCode' = exitCode
       ELSE /\ stages' = stages
            /\ Exit(1)
    /\ UNCHANGED <<outVars, tmpDirs, day, gitPath, sourceRepo, tmpDir, runs,
                   syncVars, histVars, pageVars>>

\* "Build the site with the base path": npm run build succeeds or fails
BuildSite ==
    /\ bpc = "build"
    /\ \E built \in BOOLEAN :
          /\ stages' = Append(stages, [name |-> "build", ok |-> built])
          /\ Exit(IF built THEN 0 ELSE 1)
    /\ UNCHANGED <<outVars, tmpDirs, day, gitPath, sourceRepo, tmpDir, runs,
                   syncVars, histVars, pageVars>>

\* time passes between runs
Tick ==
    /\ ~SyncRunning /\ ~BuildRunning
    /\ day < Len(Days)
    /\ day' = day + 1
    /\ UNCHANGED <<outVars, tmpDirs, syncVars, buildVars, histVars, pageVars>>

(***************************************************************************)
(* src/utils/steps.ts: getSteps over a single STEPS.md                     *)
(***************************************************************************)

\* one line of git log --oneline --reverse --no-abbrev-commit
FullLogLine(c) == c.hash \o <<" ">> \o c.subject \o <<NL>>

RECURSIVE FullLogOutput(_)
FullLogOutput(cs) ==
    IF cs = <<>> THEN <<>> ELSE FullLogLine(cs[1]) \o FullLogOutput(Tail(cs))

\* output.trim().split('\n').map(...)
ParseFullLog(output) ==
    LET lines == Split(Trim(output), NL)
    IN  [i \in 1..Len(lines) |-> ParseLogLine(lines[i])]

\* fileContent.split(/^# /m): the pieces between the "# " that start a line
RECURSIVE SplitH1(_, _)
SplitH1(s, from) ==
    LET at == {p \in from..(Len(s) - 1) :
                  (p = 1 \/ s[p - 1] = NL) /\ s[p] = "#" /\ s[p + 1] = " "}
    IN  IF at = {} THEN <<SubSeq(s, from, Len(s))>>
        ELSE <<SubSeq(s, from, SetMin(at) - 1)>> \o SplitH1(s, SetMin(at) + 2)

\* one section of STEPS.md: part.substring(0, newlineIndex).trim() and
\* part.substring(newlineIndex).trim(), where indexOf gives -1 when the
\* part has no newline and substring takes a negative index as 0
Section(part) ==
    LET nls == {i \in 1..Len(part) : part[i] = NL}
    IN  IF nls = {} THEN [title |-> <<>>, content |-> Trim(part)]
        ELSE [title |-> Trim(SubSeq(part, 1, SetMin(nls) - 1)),
              content |-> Trim(From(part, SetMin(nls)))]

Min(a, b) == IF a <= b THEN a ELSE b

\* getSteps(): dir is what REPO_PATH holds, stepsMd is REPO_PATH/STEPS.md.
\* Both catch blocks return [].
getSteps_KeepsPreamble(dir, stepsMd) ==
    LET cs       == ParseFullLog(FullLogOutput(dir.commits))
        parts    == SplitH1(stepsMd.text, 1)
        sections == [i \in 1..Len(parts) |-> Section(parts[i])]
        count    == Min(Len(cs), Len(sections))
    IN  IF ~GitWorks(dir) THEN [threw |-> FALSE, steps |-> <<>>]
        ELSE IF ~stepsMd.present THEN [threw |-> FALSE, steps |-> <<>>]
        ELSE [threw |-> FALSE,
              steps |-> [i \in 1..count |->
                            [id |-> DecString(i - 1),
                             slug |-> DecString(i - 1),
                             title |-> sections[i].title,
                             commit |-> cs[i].hash,
                             commitMessage |-> cs[i].message,
                             content |-> sections[i].content]]]

getSteps(dir, stepsMd) ==
    LET cs       == ParseFullLog(FullLogOutput(dir.commits))
        parts    == SplitH1(stepsMd.text, 1)
        sections == [i \in 1..(Len(parts) - 1) |-> Section(parts[i + 1])]
        count    == Min(Len(cs), Len(sections))
    IN  IF ~GitWorks(dir) THEN [threw |-> FALSE, steps |-> <<>>]
        ELSE IF ~stepsMd.present THEN [threw |-> FALSE, steps |-> <<>>]
        ELSE [threw |-> FALSE,
              steps |-> [i \in 1..count |->
                            [id |-> DecString(i - 1),
                             slug |-> DecString(i - 1),
                             title |-> sections[i].title,
                             commit |-> cs[i].hash,
                             commitMessage |-> cs[i].message,
                             content |-> sections[i].content]]]

NoCall == [pc |-> "idle", dir |-> Missing, stepsMd |-> NoFile,
           result |-> [threw |-> FALSE, steps |-> <<>>]]

\* STEPS.md files
StepsMds == {
    NoFile,
    File(<<>>),
    File(<<"#", " ", "O", "n", "e", NL, "f", "i", "r", "s", "t", NL>>),
    File(<<"i", "n", "t", "r", "o", NL, "#", " ", "O", "n", "e", NL, "f", "i", "r", "s", "t", NL, NL, "#", " ", "T", "w", "o", NL, "s", "e", "c", "o", "n", "d">>),
    File(<<"#", " ", "A", NL, "a", NL, "#", " ", "B", NL, "b", NL, "#", " ", "C", NL, "c", NL, "#", " ", "D">>),
    File(<<"#", "O", "n", "e", NL, "#", "#", " ", "s", "u", "b", NL, "t", "e", "x", "t">>) }

\* a page calls getSteps()
GetSteps ==
    /\ gs.pc = "called"
    /\ gs' = [gs EXCEPT !.pc = "returned", !.result = getSteps(gs.dir, gs.stepsMd)]
    /\ UNCHANGED <<outVars, tmpDirs, day, syncVars, buildVars, histVars, ms, viewVars>>

(***************************************************************************)
(* src/utils/steps.ts backed by the manifest: the content collection       *)
(***************************************************************************)

\* the body of a content collection entry: the text of the file after its
\* frontmatter block, that is after the first --- line that follows line 1
EntryBody(text) ==
    LET lines == Split(text, NL)
        closes == {i \in 2..Len(lines) : lines[i] = Dashes}
    IN  IF Len(lines) < 2 \/ lines[1] # Dashes \/ closes = {} THEN text
        ELSE Join(SubSeq(lines, SetMin(closes) + 1, Len(lines)), <<NL>>)

\* getCollection('steps'): one entry per .md file of src/content/steps
IsMd(name) == Len(name) > 3 /\ From(name, Len(name) - 2) = <<".", "m", "d">>

StepsCollection(dir) ==
    {[id |-> name, body |-> EntryBody(dir.files[name])] :
        name \in {n \in DOMAIN dir.files : IsMd(n)}}

\* `# ${stepMeta.title}\n\n*Step content not found.*`
NotFoundNote == <<"*", "S", "t", "e", "p", " ", "c", "o", "n", "t", "e", "n", "t", " ", "n", "o", "t", " ", "f", "o", "u", "n", "d", ".", "*">>
Placeholder(title) == <<"#", " ">> \o title \o <<NL, NL>> \o NotFoundNote

\* stepEntry?.body || placeholder
StepContent_NoPlaceholder(stepMeta, stepsCollection) ==
    LET found == {s \in stepsCollection : s.id = MdName(stepMeta.id) \/ s.id = stepMeta.id}
    IN  IF found # {} THEN (CHOOSE s \in found : TRUE).body ELSE <<>>

StepContent(stepMeta, stepsCollection) ==
    LET found == {s \in stepsCollection : s.id = MdName(stepMeta.id) \/ s.id = stepMeta.id}
    IN  IF found # {} /\ Truthy((CHOOSE s \in found : TRUE).body)
        THEN (CHOOSE s \in found : TRUE).body
        ELSE Placeholder(stepMeta.title)

\* getSteps() of the manifest-backed src/utils/steps.ts
getStepsManifest(projectData, stepsCollection) ==
    [i \in 1..Len(projectData.steps) |->
        [id |-> projectData.steps[i].id,
         slug |-> projectData.steps[i].slug,
         title |-> projectData.steps[i].title,
         commit |-> projectData.steps[i].commit,
         commitMessage |-> projectData.steps[i].commitMessage,
         content |-> StepContent(projectData.steps[i], stepsCollection)]]


\* a page of the site calls getSteps() while no script is writing
GetStepsManifest ==
    /\ ms.pc = "idle"
    /\ dataFile.present
    /\ ~SyncRunning
    /\ ~BuildRunning \/ bpc = "build"
    /\ ms' = [pc |-> "returned",
              projectData |-> dataFile.data,
              dir |-> stepsDir,
              steps |-> getStepsManifest(dataFile.data, StepsCollection(stepsDir))]
    /\ UNCHANGED <<outVars, tmpDirs, day, syncVars, buildVars, histVars, gs, viewVars>>

(***************************************************************************)
(* src/utils/git.ts: the files of a commit                                 *)
(***************************************************************************)

\* the zero byte of a blob
NulByte == "\\0"

\* an entry of a commit's tree: a blob, or a submodule, whose path ls-tree
\* lists although the repository stores no blob for it
Blob(bytes) == [kind |-> "blob", bytes |-> bytes]
Gitlink == [kind |-> "commit", bytes |-> <<>>]

\* all the paths of the repositories below, in the order git lists paths
PathOrder == <<"OUTPUT.md", "OUTPUT.txt", "README.md", "STEP.md", "STEPS.md",
               "a.ts", "b.ts", "e.txt", "lib", "logo.png", "src/m.ts">>

\* the paths of S in git's order
Listing(S) == SelectSeq(PathOrder, LAMBDA p : p \in S)

NoTree == [p \in {} |-> Gitlink]

\* the repositories REPO_PATH may name: the trees of their commits, oldest first
ViewRepos == <<
    << ("README.md" :> Blob(<<"#", " ", "T", NL>>)) @@
       ("STEP.md" :> Blob(<<"#", " ", "O", "n", "e", NL>>)) @@
       ("a.ts" :> Blob(<<"x", NL>>)) @@
       ("logo.png" :> Blob(<<"P", NulByte, "1">>)),
       ("README.md" :> Blob(<<"#", " ", "T", NL>>)) @@
       ("STEP.md" :> Blob(<<"#", " ", "T", "w", "o", NL>>)) @@
       ("OUTPUT.md" :> Blob(<<"o", "k", NL>>)) @@
       ("a.ts" :> Blob(<<"x", NL, "y", NL>>)) @@
       ("b.ts" :> Blob(<<"z", NL>>)) @@
       ("logo.png" :> Blob(<<"P", NulByte, "1">>)),
       ("README.md" :> Blob(<<"#", " ", "T", NL>>)) @@
       ("STEP.md" :> Blob(<<"#", " ", "T", "w", "o", NL>>)) @@
       ("b.ts" :> Blob(<<"z", NL>>)) @@
       ("logo.png" :> Blob(<<"P", NulByte, "2">>)) >>,
    << ("STEPS.md" :> Blob(<<"#", " ", "A", NL>>)) @@
       ("OUTPUT.txt" :> Blob(<<"r", "u", "n", NL>>)) @@
       ("e.txt" :> Blob(<<>>)) @@
       ("lib" :> Gitlink) @@
       ("src/m.ts" :> Blob(<<"m", NL, "n", NL>>)),
       ("STEPS.md" :> Blob(<<"#", " ", "A", NL>>)) @@
       ("OUTPUT.txt" :> Blob(<<"r", "u", "n", NL>>)) @@
       ("e.txt" :> Blob(<<"e">>)) @@
       ("lib" :> Gitlink) @@
       ("src/m.ts" :> Blob(<<"m", NulByte>>)) >> >>

\* a commit is named by its position in the history; any other name is unknown
HasCommit(repo, commit) == commit \in 1..Len(repo)
TreeAt(repo, commit) == IF HasCommit(repo, commit) THEN repo[commit] ELSE NoTree

\* execSync(`git show ${commit}:${filePath}`): the bytes of the blob, or an
\* exception when the commit, the path or the blob does not exist
ShowBlob(repo, commit, filePath) ==
    LET tree == TreeAt(repo, commit)
    IN  IF filePath \in DOMAIN tree /\ tree[filePath].kind = "blob"
        THEN [threw |-> FALSE, bytes |-> tree[filePath].bytes]
        ELSE [threw |-> TRUE, bytes |-> <<>>]

\* the values of type string | null
Null == [null |-> TRUE, text |-> <<>>]
Str(t) == [null |-> FALSE, text |-> t]

getFileContent_NoNulCheck(repo, commit, filePath) ==
    LET contentBuffer == ShowBlob(repo, commit, filePath)
    IN  IF contentBuffer.threw THEN Null ELSE Str(contentBuffer.bytes)

getFileContent(repo, commit, filePath) ==
    LET contentBuffer == ShowBlob(repo, commit, filePath)
    IN  IF contentBuffer.threw THEN Null
        ELSE IF NulByte \in Range(contentBuffer.bytes) THEN Null
        ELSE Str(contentBuffer.bytes)

\* execSync(`git show --format= --name-only ${commit}`): the paths whose entry
\* differs between the commit and its parent (every path for a root commit)
ShowNameOnly(repo, commit) ==
    LET cur  == TreeAt(repo, commit)
        prev == TreeAt(repo, commit - 1)
    IN  Listing({p \in DOMAIN cur \cup DOMAIN prev :
                    \/ p \notin DOMAIN cur
                    \/ p \notin DOMAIN prev
                    \/ cur[p] # prev[p]})

getChangedFiles_SkipsRoot(repo, commit) ==
    IF HasCommit(repo, commit) /\ HasCommit(repo, commit - 1)
    THEN ShowNameOnly(repo, commit) ELSE <<>>

getChangedFiles(repo, commit) ==
    IF HasCommit(repo, commit) THEN ShowNameOnly(repo, commit) ELSE <<>>

\* execSync(`git ls-tree -r --name-only ${commit}`)
LsTree(repo, commit) == Listing(DOMAIN TreeAt(repo, commit))

\* a FileNode: content and isBinary are optional
BinaryNode(path) == [path |-> path, content |-> NoFile, isBinary |-> TRUE]
TextNode(path, content) == [path |-> path, content |-> File(content), isBinary |-> FALSE]

FileNodeOf(repo, commit, filePath) ==
    LET content == getFileContent(repo, commit, filePath)
    IN  IF content.null THEN BinaryNode(filePath)
        ELSE TextNode(filePath, content.text)

getCommitFiles(repo, commit) ==
    IF HasCommit(repo, commit)
    THEN LET files == LsTree(repo, commit)
         IN  [i \in 1..Len(files) |-> FileNodeOf(repo, commit, files[i])]
    ELSE <<>>

(***************************************************************************)
(* src/components/Workspace.tsx: the file tree, the code and the diff view *)
(***************************************************************************)

\* a path that is null or undefined: selectedFile, initialFile
NoPath == ""

NoProps == [mounted |-> FALSE, files |-> <<>>, prevFiles |-> <<>>,
            changedFiles |-> <<>>, initialFile |-> NoPath, terminalOutput |-> <<>>]

\* the step page of a commit: the files of the commit, the files of the
\* commit before it (none for the first step), the changed files of the
\* commit and the text of its OUTPUT.md
StepPage(repo, step, initialFile) ==
    [mounted |-> TRUE,
     files |-> getCommitFiles(repo, step),
     prevFiles |-> IF step > 1 THEN getCommitFiles(repo, step - 1) ELSE <<>>,
     changedFiles |-> getChangedFiles(repo, step),
     initialFile |-> initialFile,
     terminalOutput |-> getFileContent(repo, step, "OUTPUT.md").text]

hiddenFiles == {"OUTPUT.txt", "OUTPUT.md", "STEP.md", "STEPS.md", "README.md"}

visibleChangedFiles(p) == SelectSeq(p.changedFiles, LAMBDA f : f \notin hiddenFiles)
visibleFiles(p) == SelectSeq(p.files, LAMBDA f : f.path \notin hiddenFiles)

startFile(p) ==
    IF p.initialFile # NoPath THEN p.initialFile
    ELSE IF visibleChangedFiles(p) # <<>> THEN visibleChangedFiles(p)[1]
    ELSE IF visibleFiles(p) # <<>> THEN visibleFiles(p)[1].path
    ELSE NoPath

\* files.find(f => f.path === path): the node, or undefined
Found(files, path) == \E i \in 1..Len(files) : files[i].path = path
Find(files, path) == files[CHOOSE i \in 1..Len(files) : files[i].path = path]

\* the effect of lines 124-137: the mode it sets
AutoMode_NewFilesDiff(p, selected) ==
    IF selected # NoPath /\ selected \in Range(visibleChangedFiles(p))
    THEN "diff" ELSE "code"

AutoMode(p, selected) ==
    IF selected # NoPath /\ selected \in Range(visibleChangedFiles(p))
    THEN IF ~Found(p.prevFiles, selected) THEN "code" ELSE "diff"
    ELSE "code"

\* what highlightedCode and diffHtml hold
NoHtml == [kind |-> "empty", text |-> <<>>, lines |-> <<>>]
Message(kind) == [kind |-> kind, text |-> <<>>, lines |-> <<>>]
Highlighted(content) == [kind |-> "highlighted", text |-> content, lines |-> <<>>]
PatchHtml(lines) == [kind |-> "patch", text |-> <<>>, lines |-> lines]

\* the lines of a text, each with its line end when it has one
LinesOf(text) ==
    LET ends   == {i \in 1..Len(text) : text[i] = NL} \cup
                  (IF text # <<>> /\ text[Len(text)] # NL THEN {Len(text)} ELSE {})
        start(e) == IF {x \in ends : x < e} = {} THEN 1
                    ELSE SetMax({x \in ends : x < e}) + 1
    IN  [k \in 1..Cardinality(ends) |->
            LET e == CHOOSE x \in ends : Cardinality({y \in ends : y <= x}) = k
            IN  SubSeq(text, start(e), e)]

\* Diff.createTwoFilesPatch(name, name, oldContent, newContent): the lines of
\* the hunk, marked " " (context), "-" (removed) or "+" (added)
Marked(mark, lines) == [i \in 1..Len(lines) |-> [mark |-> mark, line |-> lines[i]]]

TwoFilesPatch(oldContent, newContent) ==
    LET old == LinesOf(oldContent)
        new == LinesOf(newContent)
        short == Min(Len(old), Len(new))
        pre == SetMax({k \in 0..short : SubSeq(old, 1, k) = SubSeq(new, 1, k)})
        suf == SetMax({k \in 0..(short - pre) :
                         SubSeq(old, Len(old) - k + 1, Len(old)) =
                         SubSeq(new, Len(new) - k + 1, Len(new))})
    IN  IF old = new THEN <<>>
        ELSE Marked(" ", SubSeq(old, 1, pre)) \o
             Marked("-", SubSeq(old, pre + 1, Len(old) - suf)) \o
             Marked("+", SubSeq(new, pre + 1, Len(new) - suf)) \o
             Marked(" ", SubSeq(old, Len(old) - suf + 1, Len(old)))

\* the effect of lines 140-195 in 'code' mode
CodeView(p, selected) ==
    IF /\ Found(p.files, selected)
       /\ ~Find(p.files, selected).isBinary
       /\ Truthy(Find(p.files, selected).content.text)
    THEN Highlighted(Find(p.files, selected).content.text)
    ELSE Message("Binary file or empty")

\* the effect of lines 140-195 in 'diff' mode
DiffView_NoBinaryCheck(p, selected) ==
    LET hasFile == Found(p.files, selected)
        hasPrev == Found(p.prevFiles, selected)
        oldContent == IF hasPrev THEN Find(p.prevFiles, selected).content.text ELSE <<>>
        newContent == IF hasFile THEN Find(p.files, selected).content.text ELSE <<>>
    IN  IF ~hasFile /\ ~hasPrev THEN Message("File not found")
        ELSE PatchHtml(TwoFilesPatch(oldContent, newContent))

DiffView(p, selected) ==
    LET hasFile == Found(p.files, selected)
        hasPrev == Found(p.prevFiles, selected)
        oldContent == IF hasPrev THEN Find(p.prevFiles, selected).content.text ELSE <<>>
        newContent == IF hasFile THEN Find(p.files, selected).content.text ELSE <<>>
    IN  IF ~hasFile /\ ~hasPrev THEN Message("File not found")
        ELSE IF \/ hasFile /\ Find(p.files, selected).isBinary
                \/ hasPrev /\ Find(p.prevFiles, selected).isBinary
        THEN Message("Binary file diff not supported")
        ELSE PatchHtml(TwoFilesPatch(oldContent, newContent))

\* the tree (lines 197-223): the paths of its file nodes
treeHiddenFiles == {"OUTPUT.txt", "STEPS.md"}

tree(p, showAll) ==
    {p.files[i].path : i \in {j \in 1..Len(p.files) :
        /\ p.files[j].path \notin treeHiddenFiles
        /\ showAll \/ p.files[j].path \in Range(p.changedFiles)}}

\* the dependencies of the two effects; props never change after mounting,
\* so visibleChangedFiles, files and prevFiles keep their identity
Unrun == [auto |-> <<>>, content |-> <<>>]
AutoDeps == <<selectedFile>>
ContentDeps == <<selectedFile, mode, highlighter>>
AutoDue == effectDeps.auto # AutoDeps
ContentDue == effectDeps.content # ContentDeps
EffectsDue == AutoDue \/ ContentDue

NoSite == [repo |-> 0, step |-> 0, initialFile |-> NoPath]
NoRead == [pc |-> "idle", commit |-> 0, path |-> NoPath, result |-> Null]

pipelineVars == <<outVars, tmpDirs, day, syncVars, buildVars, histVars, gs, ms>>

\* a page calls getFileContent(commit, filePath)
GetFileContent ==
    /\ rf.pc = "called"
    /\ rf' = [rf EXCEPT !.pc = "returned",
                        !.result = getFileContent(ViewRepos[site.repo], rf.commit, rf.path)]
    /\ UNCHANGED <<pipelineVars, site, props, selectedFile, mode, highlightedCode,
                   diffHtml, highlighter, showAllFiles, effectDeps>>

\* the step page renders and the Workspace mounts with its initial state
RenderStepPage ==
    /\ site.step # 0
    /\ ~props.mounted
    /\ props' = StepPage(ViewRepos[site.repo], site.step, site.initialFile)
    /\ selectedFile' = startFile(props')
    /\ mode' = "diff"
    /\ highlightedCode' = NoHtml
    /\ diffHtml' = NoHtml
    /\ highlighter' = FALSE
    /\ showAllFiles' = FALSE
    /\ effectDeps' = Unrun
    /\ UNCHANGED <<pipelineVars, site, rf>>

\* after a render React runs, in order, the effects whose dependencies
\* changed; each sees the state of that render
RunEffects ==
    /\ props.mounted
    /\ EffectsDue
    /\ mode' = IF AutoDue THEN AutoMode(props, selectedFile) ELSE mode
    /\ highlightedCode' =
          IF ContentDue /\ mode = "code" /\ selectedFile # NoPath /\ highlighter
          THEN CodeView(props, selectedFile) ELSE highlightedCode
    /\ diffHtml' =
          IF ContentDue /\ mode = "diff" /\ selectedFile # NoPath /\ highlighter
          THEN DiffView(props, selectedFile) ELSE diffHtml
    /\ effectDeps' = [auto |-> AutoDeps, content |-> ContentDeps]
    /\ UNCHANGED <<pipelineVars, site, rf, props, selectedFile, highlighter, showAllFiles>>

\* createHighlighter(...).then(setHighlighter)
HighlighterCreated ==
    /\ props.mounted
    /\ ~EffectsDue
    /\ ~highlighter
    /\ highlighter' = TRUE
    /\ UNCHANGED <<pipelineVars, site, rf, props, selectedFile, mode, highlightedCode,
                   diffHtml, showAllFiles, effectDeps>>

\* a click on a file of the tree
onSelect(path) ==
    /\ props.mounted
    /\ ~EffectsDue
    /\ path \in tree(props, showAllFiles)
    /\ selectedFile' = path
    /\ mode' = IF mode = "terminal" THEN "code" ELSE mode
    /\ UNCHANGED <<pipelineVars, site, rf, props, highlightedCode, diffHtml,
                   highlighter, showAllFiles, effectDeps>>

\* a click on the Code, Diff or Output tab; Output exists with terminalOutput
ClickTab(tab) ==
    /\ props.mounted
    /\ ~EffectsDue
    /\ tab = "terminal" => Truthy(props.terminalOutput)
    /\ mode' = tab
    /\ UNCHANGED <<pipelineVars, site, rf, props, selectedFile, highlightedCode,
                   diffHtml, highlighter, showAllFiles, effectDeps>>

\* a click on the eye button of the tree
ToggleShowAllFiles ==
    /\ props.mounted
    /\ ~EffectsDue
    /\ showAllFiles' = ~showAllFiles
    /\ UNCHANGED <<pipelineVars, site, rf, props, selectedFile, mode, highlightedCode,
                   diffHtml, highlighter, effectDeps>>

(***************************************************************************)
(* The specification                                                       *)
(***************************************************************************)
PipelineInit ==
    /\ stepsDir = [exists |-> FALSE, files |-> NoFiles]
    /\ docsReadme = NoFile
    /\ docsDir = FALSE
    /\ dataFile = [present |-> FALSE, data |-> NoManifest]
    /\ tmpDirs = [t \in {} |-> Missing]
    /\ day = 1
    /\ spc = "idle"
    /\ SOURCE_REPO = <<>>
    /\ projectConfig = NoConfig
    /\ commits = <<>>
    /\ steps = <<>>
    /\ failure = "none"
    /\ bpc = "idle"
    /\ gitPath = <<>>
    /\ sourceRepo = <<>>
    /\ tmpDir = <<>>
    /\ exitCode = 0
    /\ stages = <<>>
    /\ runs = 0
    /\ startOut = NoOutput
    /\ runDay = 1
    /\ lastRun = NoRun

\* no page is served
ViewIdle ==
    /\ site = NoSite
    /\ rf = NoRead
    /\ props = NoProps
    /\ selectedFile = NoPath
    /\ mode = "diff"
    /\ highlightedCode = NoHtml
    /\ diffHtml = NoHtml
    /\ highlighter = FALSE
    /\ showAllFiles = FALSE
    /\ effectDeps = Unrun


Init == PipelineInit /\ gs = NoCall /\ ms = NoManifestCall /\ ViewIdle

Next ==
    \/ \E arg \in LocalArgs : StartSync(arg)
    \/ StartSyncDefault
    \/ SyncReset
    \/ SyncReadme
    \/ SyncGitLog
    \/ SyncStep
    \/ SyncStepWriteFails
    \/ SyncManifest
    \/ \E arg \in BuildArgs : StartBuild(arg)
    \/ BuildUsage
    \/ BuildAcquire
    \/ BuildSync
    \/ BuildSyncExit
    \/ BuildSite
    \/ Tick

Spec == Init /\ [][Next]_vars

\* getSteps of src/utils/steps.ts, called once on any directory and STEPS.md
InitLegacy ==
    /\ PipelineInit
    /\ \E p \in LocalPaths, f \in StepsMds :
          gs = [NoCall EXCEPT !.pc = "called", !.dir = LocalDir(p), !.stepsMd = f]
    /\ ms = NoManifestCall
    /\ ViewIdle

NextLegacy == GetSteps

SpecLegacy == InitLegacy /\ [][NextLegacy]_vars

\* sync-data.ts run by hand, and the pages of the site calling the
\* manifest-backed getSteps between the runs
NextSite ==
    \/ \E arg \in LocalArgs : StartSync(arg)
    \/ StartSyncDefault
    \/ SyncReset
    \/ SyncReadme
    \/ SyncGitLog
    \/ SyncStep
    \/ SyncStepWriteFails
    \/ SyncManifest
    \/ GetStepsManifest

SpecSite == Init /\ [][NextSite]_vars

\* the step pages: one request, either a call of getFileContent on any commit
\* and path, or the page of a step with its Workspace
InitViewer ==
    /\ PipelineInit
    /\ gs = NoCall
    /\ ms = NoManifestCall
    /\ props = NoProps
    /\ selectedFile = NoPath
    /\ mode = "diff"
    /\ highlightedCode = NoHtml
    /\ diffHtml = NoHtml
    /\ highlighter = FALSE
    /\ showAllFiles = FALSE
    /\ effectDeps = Unrun
    /\ \E r \in 1..Len(ViewRepos) :
          \/ /\ \E c \in 0..Len(ViewRepos[r]), path \in Range(PathOrder) :
                   rf = [NoRead EXCEPT !.pc = "called", !.commit = c, !.path = path]
             /\ site = [NoSite EXCEPT !.repo = r]
          \/ /\ rf = NoRead
             /\ \E s \in 1..Len(ViewRepos[r]) :
                \E f \in {NoPath} \cup DOMAIN ViewRepos[r][s] :
                   site = [repo |-> r, step |-> s, initialFile |-> f]

NextViewer ==
    \/ GetFileContent
    \/ RenderStepPage
    \/ RunEffects
    \/ HighlighterCreated
    \/ \E path \in Range(PathOrder) : onSelect(path)
    \/ \E tab \in {"code", "diff", "terminal"} : ClickTab(tab)
    \/ ToggleShowAllFiles

SpecViewer == InitViewer /\ [][NextViewer]_vars

(***************************************************************************)
(* Properties                                                              *)
(***************************************************************************)
IsPrefix(a, b) == Len(a) <= Len(b) /\ SubSeq(b, 1, Len(a)) = a

RECURSIVE DecValue(_)
DecValue(str) ==
    IF str = <<>> THEN 0
    ELSE 10 * DecValue(SubSeq(str, 1, Len(str) - 1))
         + (CHOOSE d \in 0..9 : Digits[d + 1] = str[Len(str)])

\* str is the decimal numeral of n, without leading zeros
IsDecimalOf(str, n) ==
    /\ str # <<>>
    /\ \A i \in 1..Len(str) : str[i] \in Range(Digits)
    /\ Len(str) > 1 => str[1] # "0"
    /\ DecValue(str) = n

\* the commits of the repository the sync run reads, oldest first
SourceCommits == DirAt(SOURCE_REPO).commits
\* the step list of the manifest
ManifestSteps == dataFile.data.steps

\* the contents of the persisted output
Contents(out) == [files |-> out.steps.files, readme |-> out.readme, data |-> out.data]

\* C1: after a successful sync run against a repository whose branch tip
\* reaches N commits, the manifest's step list has N entries, entry i
\* carries the i-th oldest commit, and its id and slug are the decimal
\* string of i.
C1_StepPerCommit ==
    spc = "done" =>
        /\ dataFile.present
        /\ Len(ManifestSteps) = Len(SourceCommits)
        /\ \A i \in 1..Len(ManifestSteps) :
              /\ ManifestSteps[i].commit # <<>>
              /\ IsPrefix(ManifestSteps[i].commit, SourceCommits[i].hash)
              /\ ManifestSteps[i].commitMessage = SourceCommits[i].subject
              /\ IsDecimalOf(ManifestSteps[i].id, i - 1)
              /\ IsDecimalOf(ManifestSteps[i].slug, i - 1)

\* C1 witness: a finished run over three or more commits, some with and some
\* without STEP.md and OUTPUT.md
C1_Witness ==
    /\ spc = "done"
    /\ Len(ManifestSteps) >= 3
    /\ \E i, j \in 1..Len(SourceCommits) :
          /\ SourceCommits[i].step.present /\ ~SourceCommits[j].step.present
    /\ \E i, j \in 1..Len(SourceCommits) :
          /\ SourceCommits[i].output.present /\ ~SourceCommits[j].output.present

\* C2 (as claimed): when a sync run fails, the persisted output (the files
\* of the steps directory, the README doc body, the manifest) is what it
\* was when the run started.
C2_FailureLeavesOutput ==
    spc = "failed" => Contents(Output) = Contents(startOut)

\* C3 (as claimed): when build-site was given a remote URL, the temporary
\* directory it created is gone when the process has exited.
C3_TmpDirRemoved ==
    (bpc = "exit" /\ IsRemote(gitPath)) => tmpDir \notin DOMAIN tmpDirs

\* a stage of build-site that has ended, succeeded (the sync stage
\* succeeded when sync-data.ts ran to its end)
StageOk(i) == IF stages[i].name = "sync" THEN spc = "done" ELSE stages[i].ok

\* C4: build-site starts its stages in the order acquire, sync, build; a
\* stage starts only after every earlier one succeeded; the exit status is
\* 0 exactly when all three stages ran and succeeded, and 1 otherwise.
C4_StagesInOrder ==
    /\ Len(stages) <= Len(StageOrder)
    /\ \A i \in 1..Len(stages) : stages[i].name = StageOrder[i]
    /\ \A i \in 1..(Len(stages) - 1) : StageOk(i)
    /\ bpc = "exit" =>
          /\ exitCode \in {0, 1}
          /\ exitCode = 0 <=>
                (Len(stages) = Len(StageOrder) /\ \A i \in 1..Len(stages) : StageOk(i))

\* C4 witness: build-site has exited with status 1 after the sync stage
\* failed, the build stage not started
C4_Witness ==
    /\ bpc = "exit" /\ exitCode = 1
    /\ Len(stages) = 2 /\ stages[1].ok /\ spc = "failed"

\* C5 (as claimed): enumerating the commits of a location that is no
\* repository, or has no commits, ends in an error; no step list, empty or
\* not, comes back.
C5_EnumerationErrors ==
    (gs.pc = "returned" /\ ~GitWorks(gs.dir)) => gs.result.threw

\* C6: a successful sync run that follows a successful sync run on the same
\* source leaves the same output: manifest, step files, output files and
\* README doc body.
C6_Idempotent ==
    (spc = "done" /\ lastRun.ok /\ lastRun.source = SOURCE_REPO) =>
        Contents(Output) = Contents(lastRun.out)

\* C6 witness: the second of two successful runs on one source has ended,
\* the runs made on different days, over two or more commits
C6_Witness ==
    /\ spc = "done" /\ lastRun.ok /\ lastRun.source = SOURCE_REPO
    /\ lastRun.day # runDay
    /\ Len(ManifestSteps) >= 2

\* C7: after a successful sync run the steps directory holds i.md for each
\* step i of the manifest, i.output.txt for the steps with hasOutput, and
\* nothing else.
C7_StepsDirExact ==
    spc = "done" =>
        /\ stepsDir.exists
        /\ DOMAIN stepsDir.files =
              {MdName(DecString(i - 1)) : i \in 1..Len(ManifestSteps)}
              \cup {OutputName(DecString(i - 1)) :
                        i \in {j \in 1..Len(ManifestSteps) : ManifestSteps[j].hasOutput}}

\* C7 witness: a successful run has ended and a file the previous
\* successful run had written is gone
C7_Witness ==
    /\ spc = "done" /\ lastRun.ok
    /\ \E name \in DOMAIN lastRun.out.steps.files : name \notin DOMAIN stepsDir.files
    /\ \E i \in 1..Len(ManifestSteps) : ManifestSteps[i].hasOutput

\* C8 (as claimed): after a successful sync run the README doc body and the
\* manifest come from the repository of that run alone; without a
\* README.md in it no doc body is left.
C8_NothingSurvives ==
    spc = "done" =>
        /\ dataFile.present /\ dataFile.data.repoPath = SOURCE_REPO
        /\ IF DirAt(SOURCE_REPO).readme.present
           THEN docsReadme = File(ReadReadme(DirAt(SOURCE_REPO).readme.text).body)
           ELSE ~docsReadme.present

\* C9 (as claimed): every commit hash a step records is the full-length
\* hash of its commit.
C9_FullHashes ==
    spc = "done" =>
        \A i \in 1..Len(ManifestSteps) :
            /\ Len(ManifestSteps[i].commit) = FullHashLen
            /\ ManifestSteps[i].commit = SourceCommits[i].hash

\* an H1 heading line: a line made of "#", whitespace and heading text
IsH1Line(line) == H1GroupStarts(line, 1) # {}
HasH1Line(text) == \E i \in 1..Len(Split(text, NL)) : IsH1Line(Split(text, NL)[i])

\* C10 (as claimed): for every commit whose STEP.md has no H1 heading line,
\* the step's title is the commit's subject.
C10_TitleFallback ==
    spc = "done" =>
        \A i \in 1..Len(ManifestSteps) :
            (SourceCommits[i].step.present /\ ~HasH1Line(SourceCommits[i].step.text))
                => ManifestSteps[i].title = SourceCommits[i].subject


\* the heading text of an H1 heading line: what follows "#" and the
\* whitespace after it
H1Text(line) == From(line, SetMax(H1GroupStarts(line, 1)))

\* the first H1 heading line of a text
FirstH1Line(text) ==
    LET lines == Split(text, NL)
    IN  lines[SetMin({i \in 1..Len(lines) : IsH1Line(lines[i])})]

\* C11 (as claimed): for every commit whose STEP.md has one or more H1
\* heading lines, the step's title is the heading text of the first of them.
C11_FirstH1IsTitle ==
    spc = "done" =>
        \A i \in 1..Len(ManifestSteps) :
            (SourceCommits[i].step.present /\ HasH1Line(SourceCommits[i].step.text))
                => ManifestSteps[i].title = H1Text(FirstH1Line(SourceCommits[i].step.text))


\* sub occurs in s
Contains(s, sub) ==
    \E a \in 1..(Len(s) - Len(sub) + 1) : SubSeq(s, a, a + Len(sub) - 1) = sub

\* the stored narrative of step i: the body of the step file i.md
StoredContent(i) == EntryBody(stepsDir.files[MdName(DecString(i - 1))])

\* commit i yields a step record and a step file whose content is not
\* empty and is built from the commit message
HasSyntheticContent(i) ==
    /\ i <= Len(ManifestSteps)
    /\ ManifestSteps[i].commitMessage = SourceCommits[i].subject
    /\ MdName(DecString(i - 1)) \in DOMAIN stepsDir.files
    /\ Trim(StoredContent(i)) # <<>>
    /\ Contains(StoredContent(i), SourceCommits[i].subject)
    /\ Contains(StoredContent(i), FallbackNote)

\* C12 (as claimed): a commit without STEP.md yields a step record with
\* hasOutput = false and a non-empty synthetic content built from the commit
\* message.
C12_MissingStepFallback ==
    spc = "done" =>
        \A i \in 1..Len(SourceCommits) :
            ~SourceCommits[i].step.present =>
                (HasSyntheticContent(i) /\ ~ManifestSteps[i].hasOutput)

\* C12 (amended): a commit without STEP.md yields a step record with a
\* non-empty synthetic content built from the commit message; its hasOutput
\* is false when the commit has no OUTPUT.md either.
C12_MissingStepFallbackAmended ==
    spc = "done" =>
        \A i \in 1..Len(SourceCommits) :
            ~SourceCommits[i].step.present =>
                /\ HasSyntheticContent(i)
                /\ ~SourceCommits[i].output.present => ~ManifestSteps[i].hasOutput

\* C12 witness: a finished run over a commit without STEP.md and OUTPUT.md
\* and a commit without STEP.md that has an OUTPUT.md
C12_Witness ==
    /\ spc = "done"
    /\ \E i, j \in 1..Len(SourceCommits) :
          /\ ~SourceCommits[i].step.present /\ ~SourceCommits[i].output.present
          /\ ~SourceCommits[j].step.present /\ SourceCommits[j].output.present


\* C13 (as claimed): for every step, hasOutput is true exactly when the
\* commit's tree has an OUTPUT.md, whatever its content.
C13_HasOutputIffExists ==
    spc = "done" =>
        \A i \in 1..Len(ManifestSteps) :
            ManifestSteps[i].hasOutput = SourceCommits[i].output.present


\* a text without its first H1 heading line
WithoutFirstH1Line(text) ==
    LET lines == Split(text, NL)
        k     == SetMin({i \in 1..Len(lines) : IsH1Line(lines[i])})
    IN  Join(SubSeq(lines, 1, k - 1) \o SubSeq(lines, k + 1, Len(lines)), <<NL>>)

\* the steps whose STEP.md has an H1 heading line
TitledSteps ==
    {i \in 1..Len(ManifestSteps) :
        SourceCommits[i].step.present /\ HasH1Line(SourceCommits[i].step.text)}

\* C14 (as claimed): for every step whose narrative has an H1 title line,
\* the stored content is the narrative without that heading line.
C14_ContentWithoutHeading ==
    spc = "done" =>
        \A i \in TitledSteps :
            Trim(StoredContent(i)) = Trim(WithoutFirstH1Line(SourceCommits[i].step.text))

\* C14 (amended): for every step whose STEP.md has an H1 title line, the
\* stored content is the whole text of STEP.md, the heading line included.
C14_ContentKeepsHeading ==
    spc = "done" =>
        \A i \in TitledSteps :
            /\ Contains(StoredContent(i), SourceCommits[i].step.text)
            /\ Trim(StoredContent(i)) = Trim(SourceCommits[i].step.text)
            /\ Contains(StoredContent(i), FirstH1Line(SourceCommits[i].step.text))

\* C14 witness: a finished run with a step whose STEP.md starts with an H1
\* heading line that other text follows
C14_Witness ==
    /\ spc = "done"
    /\ \E i \in TitledSteps :
          /\ IsH1Line(Split(SourceCommits[i].step.text, NL)[1])
          /\ Trim(WithoutFirstH1Line(SourceCommits[i].step.text)) # <<>>


\* C15: a sync run ends without a manifest only when git log fails, that
\* is on a source that is no repository with commits, or when a write to the
\* output fails; whatever README.md, STEP.md and OUTPUT.md are or lack, the
\* run on a repository ends with a manifest of one step per commit.
C15_OnlyFatalHalts ==
    /\ (spc = "failed" /\ failure # "writeFileSync") =>
            (failure = "execSync" /\ ~GitWorks(DirAt(SOURCE_REPO)))
    /\ spc = "done" =>
            /\ GitWorks(DirAt(SOURCE_REPO))
            /\ dataFile.present
            /\ dataFile.data.repoPath = SOURCE_REPO
            /\ Len(ManifestSteps) = Len(SourceCommits)

\* C15 witness: a finished run on a repository without README.md, with a
\* commit that lacks STEP.md and a commit that lacks OUTPUT.md
C15_Witness ==
    /\ spc = "done"
    /\ ~DirAt(SOURCE_REPO).readme.present
    /\ Len(ManifestSteps) = Len(SourceCommits)
    /\ \E i, j \in 1..Len(SourceCommits) :
          ~SourceCommits[i].step.present /\ ~SourceCommits[j].output.present


\* the README.md the sync run reads
SourceReadme == DirAt(SOURCE_REPO).readme

\* the first line of a text that is not blank (0 when all are)
FirstTextLine(lines) ==
    LET at == {i \in 1..Len(lines) : Trim(lines[i]) # <<>>}
    IN  IF at = {} THEN 0 ELSE SetMin(at)

\* the --- delimiter lines that can close a frontmatter block opened at
\* the first text line
ClosingLines(raw) ==
    LET lines == Split(raw, NL)
        o     == FirstTextLine(lines)
    IN  IF o = 0 \/ Trim(lines[o]) # Dashes THEN {}
        ELSE {c \in (o + 1)..Len(lines) : Trim(lines[c]) = Dashes}

\* the text starts with a frontmatter block delimited by --- lines
WellFormedFrontmatter(raw) == ClosingLines(raw) # {}

\* the lines of the frontmatter block, and the text after it
BlockLines(raw) ==
    SubSeq(Split(raw, NL), FirstTextLine(Split(raw, NL)) + 1, SetMin(ClosingLines(raw)) - 1)
AfterBlock(raw) ==
    Join(SubSeq(Split(raw, NL), SetMin(ClosingLines(raw)) + 1, Len(Split(raw, NL))), <<NL>>)

MetaKeys == {"title", "description", "docNumber"}

KeyText(key) ==
    CASE key = "title" -> <<"t", "i", "t", "l", "e">>
      [] key = "description" -> <<"d", "e", "s", "c", "r", "i", "p", "t", "i", "o", "n">>
      [] key = "docNumber" -> <<"d", "o", "c", "N", "u", "m", "b", "e", "r">>

\* the lines "key: value" of a frontmatter block
KeyLines(raw, key) ==
    {i \in 1..Len(BlockLines(raw)) :
        /\ StartsWith(BlockLines(raw)[i], KeyText(key) \o <<":">>)
        /\ Trim(From(BlockLines(raw)[i], Len(KeyText(key)) + 2)) # <<>>}

\* a value without the pair of quotes around it
Unquote(v) ==
    IF Len(v) >= 2 /\ v[1] \in {QUOTE, APOS} /\ v[Len(v)] = v[1]
    THEN SubSeq(v, 2, Len(v) - 1) ELSE v

\* the value the frontmatter block gives a key
KeyValue(raw, key) ==
    Unquote(Trim(From(BlockLines(raw)[SetMax(KeyLines(raw, key))], Len(KeyText(key)) + 2)))

\* a text without its first H1 heading line, if it has one
WithoutFirstH1(text) == IF HasH1Line(text) THEN WithoutFirstH1Line(text) ELSE text

\* C16 (as claimed): for a README that starts with a well-formed frontmatter
\* block, title, description and docNumber are the values of those keys
\* without their quotes, and the stored doc body is the text after the block
\* without its first H1 heading.
C16_FrontmatterRoundTrip ==
    (spc = "done" /\ SourceReadme.present /\ WellFormedFrontmatter(SourceReadme.text)) =>
        /\ \A key \in MetaKeys :
              (KeyLines(SourceReadme.text, key) # {}
                    /\ KeyValue(SourceReadme.text, key) # <<>>) =>
                  dataFile.data[key] = KeyValue(SourceReadme.text, key)
        /\ docsReadme.present
        /\ Trim(docsReadme.text) = Trim(WithoutFirstH1(AfterBlock(SourceReadme.text)))


\* the text opens a frontmatter block that no --- delimiter line closes
Unterminated(raw) ==
    LET lines == Split(raw, NL)
        o     == FirstTextLine(lines)
    IN  o # 0 /\ Trim(lines[o]) = Dashes /\ ClosingLines(raw) = {}

\* C17 (as claimed): once the README of the run is handled, a frontmatter
\* block that is not terminated has given no metadata key and the stored doc
\* body is the README text unmodified; the run has not failed on it.
C17_UnterminatedIsNoFrontmatter ==
    (spc \in {"gitlog", "steps", "done", "failed"}
        /\ SourceReadme.present /\ Unterminated(SourceReadme.text)) =>
            /\ projectConfig = NoConfig
            /\ docsReadme = File(SourceReadme.text)
            /\ failure \in {"none", "execSync", "writeFileSync"}


\* the fallback of a metadata key, from the repository name and the start
\* date of the manifest
Fallback(key) ==
    CASE key = "title" -> defaultTitle(dataFile.data.repoName)
      [] key = "description" -> <<>>
      [] key = "docNumber" -> defaultDocNumber(dataFile.data.repoName, dataFile.data.startDate)

\* C18 (as claimed): each of title, description and docNumber is the value
\* the frontmatter gave that key when it gave the key, and the key's own
\* fallback otherwise.
C18_PerKeyFallback ==
    spc = "done" =>
        \A key \in MetaKeys :
            dataFile.data[key] = IF projectConfig[key].present
                                 THEN projectConfig[key].text ELSE Fallback(key)

\* C18 (amended): each of title, description and docNumber is the value the
\* frontmatter gave that key when it gave the key a non-empty value, and the
\* key's own fallback otherwise, whatever the other two keys.
C18_PerKeyFallbackNonEmpty ==
    spc = "done" =>
        \A key \in MetaKeys :
            dataFile.data[key] = IF projectConfig[key].present /\ projectConfig[key].text # <<>>
                                 THEN projectConfig[key].text ELSE Fallback(key)

\* C18 witness: a finished run whose frontmatter gave a description and
\* neither a title nor a docNumber
C18_Witness ==
    /\ spc = "done"
    /\ projectConfig.description.present /\ dataFile.data.description # <<>>
    /\ ~projectConfig.title.present /\ ~projectConfig.docNumber.present
    /\ dataFile.data.title # <<>> /\ dataFile.data.docNumber # <<>>


\* the README of the run gave no title
NoTitleGiven == ~projectConfig.title.present \/ projectConfig.title.text = <<>>

\* a name with each of the given separators replaced by a space and the
\* first letter of each word (between spaces) uppercased
TitleCased(name, separators) ==
    LET spaced == [i \in 1..Len(name) |-> IF name[i] \in separators THEN " " ELSE name[i]]
    IN  [i \in 1..Len(name) |->
            IF i = 1 \/ spaced[i - 1] = " " THEN ToUpper(spaced[i]) ELSE spaced[i]]

\* C19 (as claimed): when the README gives no title, the title is the
\* repository name with every '-' and every '_' replaced by a space and each
\* word title-cased.
C19_DerivedTitle ==
    (spc = "done" /\ NoTitleGiven) =>
        dataFile.data.title = TitleCased(dataFile.data.repoName, {"-", "_"})

\* C19 (amended): when the README gives no title, the title is the
\* repository name with every '-' replaced by a space and the first letter
\* after each character that is no letter, digit or '_' uppercased; a '_'
\* stays and the letter after it is left as it is.
C19_DerivedTitleDashes ==
    (spc = "done" /\ NoTitleGiven) =>
        LET name == dataFile.data.repoName
        IN  /\ Len(dataFile.data.title) = Len(name)
            /\ \A i \in 1..Len(name) :
                  dataFile.data.title[i] =
                      IF name[i] = "-" THEN " "
                      ELSE IF i = 1 \/ ~IsWord(name[i - 1]) THEN ToUpper(name[i])
                      ELSE name[i]

\* C19 witness: a finished run without a title in the README, on a
\* repository whose name has a '-' in it
C19_Witness ==
    /\ spc = "done" /\ NoTitleGiven
    /\ "-" \in Range(dataFile.data.repoName)
    /\ " " \in Range(dataFile.data.title)


\* the README of the run gave no docNumber
NoDocNumberGiven == ~projectConfig.docNumber.present \/ projectConfig.docNumber.text = <<>>

\* the four-digit year of a %ai date
YearOf(date) == SubSeq(date, 1, 4)

\* C20 (as claimed): when the README gives no docNumber, the docNumber is
\* the uppercased first letters of the words of the derived title, then '-'
\* and the four-digit year of the earliest commit.
C20_DerivedDocNumber ==
    (spc = "done" /\ NoDocNumberGiven) =>
        dataFile.data.docNumber =
            Initials(Split(defaultTitle(dataFile.data.repoName), " "))
                \o <<"-">> \o YearOf(SourceCommits[1].date)


\* the origin remote of the repository the sync run reads
SourceOrigin == DirAt(SOURCE_REPO).origin

\* the repository name a remote URL carries: what follows its last '/' or
\* ':', without a final ".git"
NameInUrl(url) ==
    LET seps == {i \in 1..Len(url) : url[i] \in {"/", ":"}}
        last == From(url, IF seps = {} THEN 1 ELSE SetMax(seps) + 1)
    IN  IF Len(last) > 4 /\ From(last, Len(last) - 3) = DotGit
        THEN SubSeq(last, 1, Len(last) - 4) ELSE last

\* C21 (as claimed): with an origin remote, repoUrl is its URL and repoName
\* is derived from the URL; without one, repoName is the name of the local
\* directory and repoUrl is empty.
C21_RepoIdentity ==
    spc = "done" =>
        IF SourceOrigin.present
        THEN /\ dataFile.data.repoUrl = Trim(SourceOrigin.text)
             /\ dataFile.data.repoName = NameInUrl(Trim(SourceOrigin.text))
        ELSE /\ dataFile.data.repoUrl = <<>>
             /\ dataFile.data.repoName = Basename(SOURCE_REPO)

(***************************************************************************)
(* The files of a commit and the Workspace viewer (SpecViewer)             *)
(***************************************************************************)
ServedRepo == ViewRepos[site.repo]

\* the blob of the path at the commit holds a zero byte
HasNul(repo, commit, path) ==
    /\ path \in DOMAIN TreeAt(repo, commit)
    /\ TreeAt(repo, commit)[path].kind = "blob"
    /\ NulByte \in Range(TreeAt(repo, commit)[path].bytes)

\* the snapshots the page passes, each with the commit it was taken at
Snapshots == {<<props.files, site.step>>, <<props.prevFiles, site.step - 1>>}

\* C22: for a file whose raw content at a commit holds a null byte,
\* getFileContent never returns a text, and the FileNode getCommitFiles builds
\* for it is marked isBinary and has no content; no FileNode has both
\* isBinary and a content.
C22_BinaryNeverText ==
    /\ (rf.pc = "returned" /\ HasNul(ServedRepo, rf.commit, rf.path)) => rf.result.null
    /\ props.mounted =>
          \A snap \in Snapshots : \A i \in 1..Len(snap[1]) :
             LET node == snap[1][i]
             IN  /\ HasNul(ServedRepo, snap[2], node.path) =>
                       node.isBinary /\ ~node.content.present
                 /\ ~(node.isBinary /\ node.content.present)

C22_Witness ==
    /\ props.mounted
    /\ \E i \in 1..Len(props.files) :
          /\ HasNul(ServedRepo, site.step, props.files[i].path)
          /\ props.files[i].isBinary
    /\ \E i \in 1..Len(props.files) : props.files[i].content.present

IsBinaryIn(files, path) == Found(files, path) /\ Find(files, path).isBinary
BinarySentinel == Message("Binary file diff not supported")
\* every effect of the last render has run
Settled == props.mounted /\ ~EffectsDue

\* C23: in the diff view, when the selected path is binary in the current or
\* in the previous snapshot, the view holds no textual patch, and holds the
\* 'Binary file diff not supported' sentinel once the content effect can run
\* (the highlighter is created).
C23_BinaryDiffSentinel ==
    (/\ Settled
     /\ mode = "diff"
     /\ selectedFile # NoPath
     /\ IsBinaryIn(props.files, selectedFile) \/ IsBinaryIn(props.prevFiles, selectedFile))
    => /\ diffHtml.kind # "patch"
       /\ highlighter => diffHtml = BinarySentinel

C23_Witness ==
    /\ Settled
    /\ mode = "diff"
    /\ highlighter
    /\ IsBinaryIn(props.prevFiles, selectedFile)
    /\ diffHtml = BinarySentinel

\* C24: reading a path at a commit has three distinct outcomes: a path that
\* does not exist at the commit yields not-found, never what a binary file
\* yields; and among the files of a commit only binary files are marked
\* binary, one FileNode being built for every listed path.
C24_ThreeOutcomes ==
    /\ (/\ rf.pc = "returned"
        /\ HasCommit(ServedRepo, rf.commit)
        /\ rf.path \notin DOMAIN TreeAt(ServedRepo, rf.commit)) =>
          \A c \in 1..Len(ServedRepo) : \A path \in DOMAIN ServedRepo[c] :
             HasNul(ServedRepo, c, path) => rf.result # getFileContent(ServedRepo, c, path)
    /\ props.mounted =>
          /\ Len(props.files) = Cardinality(DOMAIN TreeAt(ServedRepo, site.step))
          /\ \A i \in 1..Len(props.files) :
                props.files[i].isBinary => HasNul(ServedRepo, site.step, props.files[i].path)

\* C25: changedFiles is exactly the set of paths present in the current
\* snapshot that are absent from the previous snapshot or have another
\* content there; every changed path exists in the current snapshot.
C25_ChangedFilesExact ==
    props.mounted =>
        LET cur  == TreeAt(ServedRepo, site.step)
            prev == TreeAt(ServedRepo, site.step - 1)
        IN  Range(props.changedFiles) =
               {path \in DOMAIN cur : path \notin DOMAIN prev \/ prev[path] # cur[path]}

\* C26: on the page of the first commit every file of the snapshot is a
\* changed file, and the diff view of a text file holds its entire content as
\* added lines, with no removed and no context line.
C26_FirstCommitAllAdded ==
    (props.mounted /\ site.step = 1 /\ props.prevFiles = <<>>) =>
        /\ \A i \in 1..Len(props.files) : props.files[i].path \in Range(props.changedFiles)
        /\ (/\ Settled
            /\ mode = "diff"
            /\ highlighter
            /\ Found(props.files, selectedFile)
            /\ ~Find(props.files, selectedFile).isBinary)
           => diffHtml = PatchHtml(Marked("+", LinesOf(Find(props.files, selectedFile).content.text)))

C26_Witness ==
    /\ Settled
    /\ site.step = 1
    /\ props.prevFiles = <<>>
    /\ mode = "diff"
    /\ highlighter
    /\ Found(props.files, selectedFile)
    /\ ~Find(props.files, selectedFile).isBinary
    /\ diffHtml.kind = "patch"
    /\ Len(diffHtml.lines) > 0

\* C27: README.md, STEP.md and OUTPUT.md are never in the file tree, whether
\* it shows the changed files or all files.
C27_MetadataFilesHidden ==
    props.mounted =>
        tree(props, showAllFiles) \cap {"README.md", "STEP.md", "OUTPUT.md"} = {}

\* the selected file is a visible changed file that the previous snapshot has
ChangedFromPrevious(path) ==
    /\ path \in Range(props.changedFiles) \ hiddenFiles
    /\ path \in DOMAIN TreeAt(ServedRepo, site.step - 1)

\* C30: whatever files were selected and tabs clicked before, the step in
\* which the selection effect runs for a newly selected file (at mount, or
\* after a click in the tree, in terminal mode too) leaves the mode 'diff'
\* when the selected file is a visible changed file that the previous
\* snapshot has, and 'code' otherwise.
C30_ModeFollowsSelection ==
    [][effectDeps'.auto # effectDeps.auto =>
          mode' = IF ChangedFromPrevious(selectedFile') THEN "diff" ELSE "code"]_vars

C30_Witness ==
    /\ Settled
    /\ selectedFile # startFile(props)
    /\ selectedFile \in tree(props, showAllFiles)
    /\ ChangedFromPrevious(selectedFile)
    /\ mode = "diff"
    /\ diffHtml.kind = "patch"

(***************************************************************************)
(* The single-file strategy (SpecLegacy) and the manifest-backed getSteps  *)
(***************************************************************************)
\* the commits git log lists in the directory, oldest first
LoggedCommits == IF GitWorks(gs.dir) THEN gs.dir.commits ELSE <<>>

StepsMdLines == Split(gs.stepsMd.text, NL)
\* the lines of STEPS.md that open an H1 section
SectionStarts == {i \in 1..Len(StepsMdLines) : IsPrefix(<<"#", " ">>, StepsMdLines[i])}
SectionStart(k) == CHOOSE i \in SectionStarts : Cardinality({j \in SectionStarts : j <= i}) = k
\* the text of the k-th section: its heading line and the lines up to the next
SectionText(k) ==
    LET later == {i \in SectionStarts : i > SectionStart(k)}
        last  == IF later = {} THEN Len(StepsMdLines) ELSE SetMin(later) - 1
    IN  Join(SubSeq(StepsMdLines, SectionStart(k), last), <<NL>>)

\* C28: getSteps of the single-file strategy returns min(number of commits,
\* number of H1 sections of STEPS.md) steps without an error; step i has the
\* hash and the subject of the i-th oldest commit and takes its title and its
\* content from the i-th section of the file.
C28_MinOfCommitsAndSections ==
    gs.pc = "returned" =>
        LET result == gs.result.steps
        IN  /\ ~gs.result.threw
            /\ Len(result) = Min(Len(LoggedCommits), Cardinality(SectionStarts))
            /\ \A i \in 1..Len(result) :
                  /\ result[i].commit = LoggedCommits[i].hash
                  /\ result[i].commitMessage = LoggedCommits[i].subject
                  /\ result[i].id = DecString(i - 1)
                  /\ Contains(SectionText(i), result[i].title)
                  /\ Contains(SectionText(i), result[i].content)

C28_Witness ==
    /\ gs.pc = "returned"
    /\ Len(gs.result.steps) = 2
    /\ Len(LoggedCommits) > 2
    /\ gs.result.steps[2].title # gs.result.steps[1].title

\* the narrative file of a manifest entry in the content directory the call read
HasNarrative(stepMeta) ==
    /\ MdName(stepMeta.id) \in DOMAIN ms.dir.files
    /\ EntryBody(ms.dir.files[MdName(stepMeta.id)]) # <<>>

\* C29: the manifest-backed getSteps returns one Step per manifest entry, in
\* the order of the manifest; a step whose narrative file is missing from the
\* content collection, or has an empty body, has the placeholder
\* '*Step content not found.*' under its title as content, and every other
\* step the body of its file; no content is empty.
C29_OneStepPerEntry ==
    ms.pc = "returned" =>
        /\ Len(ms.steps) = Len(ms.projectData.steps)
        /\ \A i \in 1..Len(ms.steps) :
              LET stepMeta == ms.projectData.steps[i]
              IN  /\ ms.steps[i].id = stepMeta.id
                  /\ ms.steps[i].commit = stepMeta.commit
                  /\ ms.steps[i].title = stepMeta.title
                  /\ ms.steps[i].content # <<>>
                  /\ IF HasNarrative(stepMeta)
                     THEN ms.steps[i].content = EntryBody(ms.dir.files[MdName(stepMeta.id)])
                     ELSE /\ Contains(ms.steps[i].content, NotFoundNote)
                          /\ Contains(ms.steps[i].content, stepMeta.title)

C29_Witness ==
    /\ ms.pc = "returned"
    /\ \E i \in 1..Len(ms.steps) : ~HasNarrative(ms.projectData.steps[i])
    /\ \E i \in 1..Len(ms.steps) : Contains(ms.steps[i].content, NotFoundNote)

====
